---- MODULE Spec2Model ----
(***************************************************************************)
(* Cycle-level model of the Tomasulo simulator (IntegratedSimulator and    *)
(* the components it drives: IssueUnit, TomasuloCore, ReorderBuffer,       *)
(* reservation stations, FUPool, CDB, WriteBackStage, TimingTracker).      *)
(* One cycle of step_cycle() is a fixed sequence of stages; the variable   *)
(* phase is the position inside step_cycle().                              *)
(***************************************************************************)
EXTENDS Integers, Sequences, FiniteSets, TLC

\* ------------------------------------------------------------------
\* Bounds of the model
\* ------------------------------------------------------------------
MaxCycle == 22
MaxProgLen == 2

\* ------------------------------------------------------------------
\* Program constants
\* ------------------------------------------------------------------
NONE == -1
ROB_SIZE == 8
NUM_REGS == 8
WORD == 65536
LAT_ADDSUB == 2
LAT_NAND == 1
LAT_MUL == 12
LAT_LOAD == 6
LAT_STORE == 6
LAT_BEQ == 1
LAT_CALLRET == 1

Regs == 0..(NUM_REGS - 1)
RobIdx == 0..(ROB_SIZE - 1)

Mask16(x) == x % WORD

RECURSIVE BitAnd(_, _, _)
BitAnd(a, b, n) ==
    IF n = 0 THEN 0
    ELSE (IF (a % 2 = 1) /\ (b % 2 = 1) THEN 1 ELSE 0) + 2 * BitAnd(a \div 2, b \div 2, n - 1)

\* (~(a & b)) & 0xFFFF
Nand16(a, b) == (WORD - 1) - BitAnd(Mask16(a), Mask16(b), 16)

\* Optional values of the operand dictionaries: dict.get(key, 0)
Get0(x) == IF x = NONE THEN 0 ELSE x

\* ------------------------------------------------------------------
\* Instructions (parser.py) and the programs the model runs
\* ------------------------------------------------------------------
Instr(op, rA, rB, rC, imm, label) ==
    [op |-> op, rA |-> rA, rB |-> rB, rC |-> rC, imm |-> imm, label |-> label]

I_ADD(a, b, c)  == Instr("ADD", a, b, c, NONE, NONE)
I_SUB(a, b, c)  == Instr("SUB", a, b, c, NONE, NONE)
I_NAND(a, b, c) == Instr("NAND", a, b, c, NONE, NONE)
I_MUL(a, b, c)  == Instr("MUL", a, b, c, NONE, NONE)
I_LOAD(a, off, b)  == Instr("LOAD", a, b, NONE, off, NONE)
I_STORE(a, off, b) == Instr("STORE", a, b, NONE, off, NONE)
I_BEQ(a, b, l)  == Instr("BEQ", a, b, NONE, NONE, l)
I_CALL(l)       == Instr("CALL", NONE, NONE, NONE, NONE, l)
I_RET           == Instr("RET", NONE, NONE, NONE, NONE, NONE)

\* valueless ROB / result values: None, an int, the CALL dict, the STORE dict
VNone == [k |-> "none", v |-> NONE, t |-> NONE]
VInt(n) == [k |-> "int", v |-> n, t |-> NONE]
VCall(ra, target) == [k |-> "call", v |-> ra, t |-> target]
VStore(addr, val) == [k |-> "store", v |-> val, t |-> addr]
VBranch(taken, target) == [k |-> "branch", v |-> IF taken THEN 1 ELSE 0, t |-> target]

\* ------------------------------------------------------------------
\* Reservation stations (reservation_station.py, TomasuloCore.__init__)
\* ------------------------------------------------------------------
RSOrder == <<"LOAD1", "LOAD2", "STORE", "BEQ1", "BEQ2", "CALL/RET",
             "ADD/SUB1", "ADD/SUB2", "ADD/SUB3", "ADD/SUB4", "NAND", "MUL">>
RSNames == {RSOrder[i] : i \in 1..Len(RSOrder)}
ALUNames == {"ADD/SUB1", "ADD/SUB2", "ADD/SUB3", "ADD/SUB4", "NAND", "MUL"}

\* the slots an opcode may be issued to, in the order rs_issue tries them
RSClass(op) ==
    CASE op = "LOAD"  -> <<"LOAD1", "LOAD2">>
      [] op = "STORE" -> <<"STORE">>
      [] op = "BEQ"   -> <<"BEQ1", "BEQ2">>
      [] op \in {"CALL", "RET"} -> <<"CALL/RET">>
      [] op \in {"ADD", "SUB"}  -> <<"ADD/SUB1", "ADD/SUB2", "ADD/SUB3", "ADD/SUB4">>
      [] op = "NAND"  -> <<"NAND">>
      [] op = "MUL"   -> <<"MUL">>

EmptyRS ==
    [busy |-> FALSE, Op |-> "NONE", instr |-> NONE, state |-> "NONE", dest |-> NONE,
     Vj |-> NONE, Qj |-> NONE, Vk |-> NONE, Qk |-> NONE, A |-> NONE, PC |-> NONE, uid |-> NONE]

\* XxxRS.pop(): ALURS.pop() leaves state and dest as they are
RSPop(name, r) ==
    IF name \in ALUNames
    THEN [EmptyRS EXCEPT !.state = r.state, !.dest = r.dest]
    ELSE EmptyRS

\* XxxRS.is_ready()
RSIsReady(r) ==
    IF r.Op \in {"CALL", "RET"}
    THEN (IF r.Op = "RET" THEN r.busy /\ r.Qj = NONE ELSE r.busy)
    ELSE IF r.Op = "LOAD" THEN r.busy /\ r.Qj = NONE
    ELSE r.busy /\ r.Qj = NONE /\ r.Qk = NONE

\* ------------------------------------------------------------------
\* Functional units (functional_units.py, FUPool.__init__)
\* ------------------------------------------------------------------
NumFU == 13
FUIds == 1..NumFU
FUType(i) ==
    IF i <= 4 THEN "ADD/SUB" ELSE IF i <= 6 THEN "NAND" ELSE IF i = 7 THEN "MUL"
    ELSE IF i <= 9 THEN "LOAD" ELSE IF i = 10 THEN "STORE" ELSE IF i <= 12 THEN "BEQ"
    ELSE "CALL/RET"
FULatency(i) ==
    CASE FUType(i) = "ADD/SUB" -> LAT_ADDSUB
      [] FUType(i) = "NAND" -> LAT_NAND
      [] FUType(i) = "MUL" -> LAT_MUL
      [] FUType(i) = "LOAD" -> LAT_LOAD
      [] FUType(i) = "STORE" -> LAT_STORE
      [] FUType(i) = "BEQ" -> LAT_BEQ
      [] FUType(i) = "CALL/RET" -> LAT_CALLRET
\* FUPool.fu_map
FUMap(op) ==
    CASE op \in {"ADD", "SUB"} -> "ADD/SUB"
      [] op \in {"CALL", "RET"} -> "CALL/RET"
      [] OTHER -> op

IdleFU ==
    [state |-> "idle", cycles_remaining |-> 0, instr |-> NONE, op |-> "NONE",
     rob_index |-> NONE, rs_entry_id |-> "NONE", Vj |-> NONE, Vk |-> NONE,
     imm |-> NONE, pc |-> NONE, computed_address |-> NONE, store_value |-> NONE,
     uid |-> NONE]

\* FunctionalUnit.reset(): computed_address / store_value are not touched
FUReset(f) ==
    [IdleFU EXCEPT !.computed_address = f.computed_address, !.store_value = f.store_value]

\* ------------------------------------------------------------------
\* Reorder buffer (rob.py)
\* ------------------------------------------------------------------
NoEntry ==
    [name |-> "NONE", dest |-> NONE, ready |-> FALSE, value |-> VNone, instr_id |-> NONE,
     uid |-> NONE]

\* circular_queue.traverse(): the indices from head, in order
RobIndexAt(h, i) == (h + i) % ROB_SIZE
RobLive(h, c) == {RobIndexAt(h, i) : i \in 0..(c - 1)}

\* ReorderBuffer.find(dest): first entry from head whose dest matches
RobFindPos(q, h, c, dest) ==
    LET hits == {i \in 0..(c - 1) : q[RobIndexAt(h, i)].name # "NONE"
                                     /\ q[RobIndexAt(h, i)].dest = dest}
    IN IF hits = {} THEN NONE ELSE CHOOSE i \in hits : \A j \in hits : i <= j

\* ReorderBuffer.update(index, value) -> ROB_Entry.update
RobUpdate(q, h, c, index, value) ==
    IF index \in RobLive(h, c) /\ q[index].name # "NONE"
    THEN [q EXCEPT ![index].ready = TRUE, ![index].value = value]
    ELSE q

\* flush_tail that moves the tail back but leaves the popped slots filled
RECURSIVE FlushTailKeepsSlots(_, _, _, _, _)
FlushTailKeepsSlots(q, t, c, index, acc) ==
    IF c = 0 \/ ((t - 1 + ROB_SIZE) % ROB_SIZE) = index
    THEN [queue |-> q, tail |-> t, count |-> c, flushed |-> acc]
    ELSE LET cur == (t - 1 + ROB_SIZE) % ROB_SIZE
         IN FlushTailKeepsSlots(q, cur, c - 1, index,
                      Append(acc, [idx |-> cur, dest |-> q[cur].dest,
                                   instr_id |-> q[cur].instr_id, uid |-> q[cur].uid]))

\* ReorderBuffer.flush_tail(index): pops from the tail until the entry at
\* index is the last one, or the buffer is empty
RECURSIVE FlushTail(_, _, _, _, _)
FlushTail(q, t, c, index, acc) ==
    IF c = 0 \/ ((t - 1 + ROB_SIZE) % ROB_SIZE) = index
    THEN [queue |-> q, tail |-> t, count |-> c, flushed |-> acc]
    ELSE LET cur == (t - 1 + ROB_SIZE) % ROB_SIZE
         IN FlushTail([q EXCEPT ![cur] = NoEntry], cur, c - 1, index,
                      Append(acc, [idx |-> cur, dest |-> q[cur].dest,
                                   instr_id |-> q[cur].instr_id, uid |-> q[cur].uid]))

\* ------------------------------------------------------------------
\* State
\* ------------------------------------------------------------------
VARIABLES
    prog,                 \* IntegratedSimulator.instructions (instr_id = position)
    cycle,                \* IntegratedSimulator.current_cycle
    phase,                \* position inside step_cycle()
    crashed,              \* an exception left step_cycle()
    next_index,           \* IssueUnit._next_index
    last_jump_index,      \* IssueUnit._last_jump_index
    rob_queue, rob_head, rob_tail, rob_count,   \* circular_queue
    rat,                  \* TomasuloCore.rat
    regs,                 \* RegisterFile._registers
    mem,                  \* Memory._memory
    rs,                   \* TomasuloCore.reservation_stations
    fus,                  \* FUPool units
    write_queue,          \* WriteBackStage.write_queue
    cdb_busy,             \* CDB.is_busy
    cdb_current,          \* CDB.current_broadcast (the ROB index, or NONE)
    cdb_pending,          \* CDB.pending_broadcasts (the ROB indices)
    timing,               \* TimingTracker.timing
    pending_label,        \* TomasuloCore._pending_branch_label
    pending_rob_index,    \* TomasuloCore._pending_branch_rob_index
    pending_target,       \* TomasuloCore._pending_branch_target
    recently_flushed_ids, \* TomasuloCore._recently_flushed_ids
    flushed_rs_entry_ids, \* TomasuloCore._flushed_rs_entry_ids
    flushed_instructions, \* IntegratedSimulator.flushed_instructions
    progress,             \* IntegratedSimulator._last_rob_count / _no_progress_cycles
    hist,                 \* observations of the run (history, not program state)
    driver                \* who advances the cycles: run() or calls of step_cycle()

vars == <<prog, cycle, phase, crashed, next_index, last_jump_index,
          rob_queue, rob_head, rob_tail, rob_count, rat, regs, mem, rs, fus,
          write_queue, cdb_busy, cdb_current, cdb_pending, timing,
          pending_label, pending_rob_index, pending_target,
          recently_flushed_ids, flushed_rs_entry_ids, flushed_instructions, progress,
          hist, driver>>

NumInstr == Len(prog)
InstrIds == 1..NumInstr

\* Memory.read(): unwritten addresses read as 0
MemRead(m, a) == IF a \in DOMAIN m THEN m[a] ELSE 0
\* Memory.write(): the value is truncated to 16 bits
MemWrite(m, a, v) == [x \in (DOMAIN m) \cup {a} |-> IF x = a THEN Mask16(v) ELSE m[x]]
\* a write that does not test the register number
RegWriteAny(rf, r, v) == [rf EXCEPT ![r] = Mask16(v)]

\* RegisterFile.write(): R0 is never written, values are truncated
RegWrite(rf, r, v) == IF r # 0 THEN [rf EXCEPT ![r] = Mask16(v)] ELSE rf

\* ------------------------------------------------------------------
\* Timing tracker (timing_tracker.py); all-NONE stands for "no entry"
\* ------------------------------------------------------------------
NoTiming == [issue |-> NONE, start_exec |-> NONE, finish_exec |-> NONE,
             write |-> NONE, commit |-> NONE]
RecordIssue(tm, id, c)      == [tm EXCEPT ![id].issue = c]
RecordStartExec(tm, id, c)  == [tm EXCEPT ![id].start_exec = c]
RecordFinishExec(tm, id, c) == [tm EXCEPT ![id].finish_exec = c]
RecordWrite(tm, id, c)      == [tm EXCEPT ![id].write = c]
RecordCommit(tm, id, c)     == [tm EXCEPT ![id].commit = c]

\* ------------------------------------------------------------------
\* TomasuloCore.flush and notify_branch_result, on the part of the core
\* state they touch: a record with fields rob_queue, rob_tail, rob_count,
\* rat, rs, pending_label, pending_rob_index, pending_target,
\* recently_flushed_ids, flushed_rs_entry_ids, and for the history head,
\* cur_uid (the instance whose result is being handled), flushed_uids,
\* flush_log
\* ------------------------------------------------------------------
SeqToSet(sq) == {sq[i] : i \in 1..Len(sq)}

RECURSIVE SelectRS(_, _, _)
\* the names of order[i..] that satisfy the predicate set, as a list
SelectRS(order, i, keep) ==
    IF i > Len(order) THEN <<>>
    ELSE (IF order[i] \in keep THEN <<order[i]>> ELSE <<>>) \o SelectRS(order, i + 1, keep)

\* the should_flush decision of TomasuloCore.flush for one busy slot
ShouldFlushRS(name, r, idxs) ==
    \/ r.dest \in idxs
    \/ (r.Qj # NONE /\ r.Qj \in idxs)
    \/ (r.Qk # NONE /\ r.Qk \in idxs)
    \/ (name \in {"BEQ1", "BEQ2"} /\ idxs # {})

CoreFlush(C, index) ==
    LET ft == FlushTail(C.rob_queue, C.rob_tail, C.rob_count, index, <<>>)
        idxs == {ft.flushed[i].idx : i \in 1..Len(ft.flushed)}
        hit == {n \in RSNames : C.rs[n].busy /\ ShouldFlushRS(n, C.rs[n], idxs)}
    IN [C EXCEPT
          !.rob_queue = ft.queue,
          !.rob_tail = ft.tail,
          !.rob_count = ft.count,
          !.rat = [r \in Regs |-> IF C.rat[r] \in idxs THEN NONE ELSE C.rat[r]],
          !.rs = [n \in RSNames |-> IF n \in hit THEN EmptyRS ELSE C.rs[n]],
          !.flushed_rs_entry_ids = SelectRS(RSOrder, 1, hit),
          !.recently_flushed_ids =
              C.recently_flushed_ids \o [i \in 1..Len(ft.flushed) |-> ft.flushed[i].instr_id],
          !.flushed_uids = C.flushed_uids \cup
              {ft.flushed[i].uid : i \in 1..Len(ft.flushed)},
          !.flush_log = Append(C.flush_log,
              [branch |-> index, by_uid |-> C.cur_uid, head |-> C.head,
               idxs |-> idxs, rs_hit |-> hit,
               pre_rs |-> C.rs, pre_rat |-> C.rat, pre_queue |-> C.rob_queue,
               pre_count |-> C.rob_count])]

\* the flush + record-the-redirect branch of notify_branch_result
CoreTakeBranch(C, rob_index, target, label) ==
    LET F == CoreFlush(C, rob_index)
    IN [F EXCEPT
          !.pending_label = label,
          !.pending_rob_index = rob_index,
          !.pending_target = IF label = NONE THEN target ELSE F.pending_target]

CoreNotifyBranch(C, head, rob_index, taken, target, label) ==
    IF ~taken THEN C
    ELSE IF C.pending_label # NONE
    THEN IF C.pending_rob_index # NONE
         THEN LET dist_current == (rob_index - head + ROB_SIZE) % ROB_SIZE
                  dist_pending == (C.pending_rob_index - head + ROB_SIZE) % ROB_SIZE
              IN IF dist_current < dist_pending
                 THEN CoreTakeBranch(C, rob_index, target, label)
                 ELSE C
         ELSE CoreTakeBranch(C, rob_index, target, label)
    ELSE CoreTakeBranch(C, rob_index, target, label)

\* ------------------------------------------------------------------
\* Issue unit (issue_unit.py)
\* ------------------------------------------------------------------
\* IssueUnit.get_operand(reg): [found, value]; value is the operand value
\* when found, the ROB index to wait for otherwise
GetOperand(reg) ==
    LET pos == RobFindPos(rob_queue, rob_head, rob_count, reg)
        idx == RobIndexAt(rob_head, pos)
        e == rob_queue[idx]
    IN IF pos = NONE THEN [found |-> TRUE, value |-> regs[reg]]
       ELSE IF e.name \in {"BEQ", "STORE"} THEN [found |-> TRUE, value |-> regs[reg]]
       ELSE IF e.ready
            THEN (IF e.value.k = "none" THEN [found |-> TRUE, value |-> regs[reg]]
                  ELSE [found |-> TRUE, value |-> e.value.v])
       ELSE [found |-> FALSE, value |-> idx]

\* the two source registers get_source_operands renames, per opcode
SourceRegs(ins) ==
    CASE ins.op \in {"BEQ", "STORE"} -> <<ins.rA, ins.rB>>
      [] ins.op = "RET" -> <<1, NONE>>
      [] OTHER -> <<ins.rB, ins.rC>>

\* IssueUnit.get_source_operands: (Vj, Qj, Vk, Qk)
GetSourceOperands(ins) ==
    LET sr == SourceRegs(ins)
        oj == GetOperand(sr[1])
        ok == GetOperand(sr[2])
    IN [Vj |-> IF sr[1] # NONE /\ oj.found THEN oj.value ELSE NONE,
        Qj |-> IF sr[1] # NONE /\ ~oj.found THEN oj.value ELSE NONE,
        Vk |-> IF sr[2] # NONE /\ ok.found THEN ok.value ELSE NONE,
        Qk |-> IF sr[2] # NONE /\ ~ok.found THEN ok.value ELSE NONE]

\* the first slot of the class is taken whether it is busy or not
FreeSlotWhateverBusy(op) == RSClass(op)[1]

\* first free slot of the opcode's class, or "NONE"
RECURSIVE FirstFree(_, _)
FirstFree(names, i) ==
    IF i > Len(names) THEN "NONE"
    ELSE IF ~rs[names[i]].busy THEN names[i]
    ELSE FirstFree(names, i + 1)
FreeSlot(op) == FirstFree(RSClass(op), 1)

\* the slot contents XxxRS.push stores for this instruction (rs_issue)
PushedRS(slot, ins, idx0, rob_index, uid) ==
    LET o == GetSourceOperands(ins)
        old == rs[slot]
    IN CASE ins.op = "LOAD" ->
              [EmptyRS EXCEPT !.busy = TRUE, !.Op = "LOAD", !.instr = idx0, !.dest = rob_index,
                 !.Vj = o.Vj, !.Qj = o.Qj, !.A = ins.imm, !.uid = uid,
                 !.state = old.state]
         [] ins.op = "STORE" ->
              [EmptyRS EXCEPT !.busy = TRUE, !.Op = "STORE", !.instr = idx0, !.dest = rob_index,
                 !.Vj = o.Vj, !.Qj = o.Qj, !.Vk = o.Vk, !.Qk = o.Qk, !.A = ins.imm,
                 !.uid = uid, !.state = old.state]
         [] ins.op \in {"CALL", "RET"} ->
              [EmptyRS EXCEPT !.busy = TRUE, !.Op = ins.op, !.instr = idx0, !.dest = rob_index,
                 !.Vj = IF ins.op = "RET" THEN o.Vj ELSE NONE,
                 !.Qj = IF ins.op = "RET" THEN o.Qj ELSE NONE,
                 !.A = ins.imm, !.PC = idx0, !.uid = uid, !.state = old.state]
         [] OTHER ->
              [EmptyRS EXCEPT !.busy = TRUE, !.Op = ins.op, !.instr = idx0, !.dest = rob_index,
                 !.Vj = o.Vj, !.Qj = o.Qj, !.Vk = o.Vk, !.Qk = o.Qk, !.uid = uid,
                 !.state = old.state]

\* IssueUnit.is_instruction_in_flight(instr_id)
IsInstructionInFlight(id) ==
    \/ \E i \in RobLive(rob_head, rob_count) :
          rob_queue[i].name # "NONE" /\ rob_queue[i].instr_id = id
    \/ \E n \in RSNames : rs[n].busy /\ rs[n].instr # NONE /\ rs[n].instr + 1 = id

\* the re-issue test of issue_next: the instruction may not be issued now
InFlightBlocked ==
    /\ IsInstructionInFlight(next_index + 1)
    /\ ~(last_jump_index # NONE /\ next_index >= last_jump_index)

\* destination register of the ROB entry allocated at issue
DestReg(ins) ==
    IF ins.op = "CALL" THEN 1 ELSE IF ins.op = "RET" THEN NONE ELSE ins.rA

\* a return address inside the program, index 0 included
ReturnTargetInRange(target) == 0 <= target /\ target < NumInstr

\* the test of a RET redirect: inside the program and not at its start
ReturnTargetValid(target) == 0 < target /\ target < NumInstr

\* IssueUnit.jump_to_index(target): [next_index, last_jump_index]
JumpToIndex(target, ni, lj) ==
    IF 0 <= target /\ target < NumInstr
    THEN [next_index |-> target,
          last_jump_index |-> IF target < ni THEN target
                              ELSE IF target > ni THEN NONE ELSE lj]
    ELSE [next_index |-> ni, last_jump_index |-> lj]

\* ------------------------------------------------------------------
\* Write-back stage (writeback.py, cdb.py, TomasuloCore.forward_to_rs)
\* ------------------------------------------------------------------
\* list.sort(key=rob_index): stable insertion into a sorted list
RECURSIVE InsertSorted(_, _)
InsertSorted(sorted, x) ==
    IF sorted = <<>> THEN <<x>>
    ELSE IF x.rob_index < Head(sorted).rob_index THEN <<x>> \o sorted
    ELSE <<Head(sorted)>> \o InsertSorted(Tail(sorted), x)
RECURSIVE SortByRobIndex(_)
SortByRobIndex(q) ==
    IF q = <<>> THEN <<>>
    ELSE InsertSorted(SortByRobIndex(SubSeq(q, 1, Len(q) - 1)), q[Len(q)])

RemoveAt(q, i) == SubSeq(q, 1, i - 1) \o SubSeq(q, i + 1, Len(q))

\* TomasuloCore.get_oldest_ready_rob_index()
GetOldestReadyRobIndex == rob_head

\* the arbitration of process_write_back: [result, rest]
Arbitrate(q, oldest_rob) ==
    LET hits == {i \in 1..Len(q) : q[i].rob_index = oldest_rob}
    IN IF hits # {}
       THEN LET i == CHOOSE x \in hits : \A y \in hits : x <= y
            IN [result |-> q[i], rest |-> RemoveAt(q, i)]
       ELSE LET sq == SortByRobIndex(q)
            IN [result |-> Head(sq), rest |-> Tail(sq)]

\* TomasuloCore.forward_to_rs(rob_index, value) for an integer value
ForwardToRS(S, q, h, c, rob_index, value) ==
    IF ~(rob_index \in RobLive(h, c) /\ q[rob_index].name # "NONE") THEN S
    ELSE [n \in RSNames |->
            IF ~S[n].busy THEN S[n]
            ELSE [S[n] EXCEPT
                    !.Vj = IF S[n].Qj = rob_index THEN value ELSE @,
                    !.Qj = IF S[n].Qj = rob_index THEN NONE ELSE @,
                    !.Vk = IF S[n].Qk = rob_index THEN value ELSE @,
                    !.Qk = IF S[n].Qk = rob_index THEN NONE ELSE @]]

\* the value process_write_back hands to update_rob_value
RobValueOf(res) ==
    IF res.instruction_type \in {"STORE", "BEQ", "RET"} THEN VNone
    ELSE res.value

\* TomasuloCore.clear_rs_entry(rs_entry_id)
ClearRSEntry(S, id) == [S EXCEPT ![id] = RSPop(id, S[id])]

\* ------------------------------------------------------------------
\* Functional units: tick and finished executions
\* ------------------------------------------------------------------
\* the difference without the 16-bit mask
SubUnmasked(a, b) == a - b

\* (a - b) & 0xFFFF
Sub16(a, b) == (((a - b) % WORD) + WORD) % WORD

\* (a * b) & 0xFFFF, computed by halves so that every intermediate product
\* stays below 2^31
Mul16(a, b) ==
    LET al == a % 256
        ah == a \div 256
    IN  ((al * b) + (((ah * b) % 256) * 256)) % WORD

\* XxxFU.tick(): the unit after one tick (still "executing" when done; the
\* finished ones are reset by _handle_finished_execution)
FUTick(i, f) ==
    IF f.state # "executing" THEN f
    ELSE LET cr == f.cycles_remaining - 1
             addr_now == FUType(i) \in {"LOAD", "STORE"} /\ f.computed_address = NONE /\ cr = 4
             base == IF FUType(i) = "LOAD" THEN Get0(f.Vj) ELSE Get0(f.Vk)
         IN [f EXCEPT !.cycles_remaining = cr,
                      !.computed_address =
                          IF addr_now THEN Mask16(base + Get0(f.imm)) ELSE @]
FUFinished(f) == f.state = "executing" /\ f.cycles_remaining <= 0

\* the result tick() leaves in the unit (compute_result / LoadFU / StoreFU)
FUResult(i, f, m) ==
    CASE FUType(i) = "ADD/SUB" ->
             IF f.op = "ADD" THEN VInt(Mask16(Get0(f.Vj) + Get0(f.Vk)))
             ELSE IF f.op = "SUB" THEN VInt(Sub16(Get0(f.Vj), Get0(f.Vk)))
             ELSE VInt(0)
      [] FUType(i) = "NAND" -> VInt(Nand16(Get0(f.Vj), Get0(f.Vk)))
      [] FUType(i) = "MUL" -> VInt(Mul16(Get0(f.Vj), Get0(f.Vk)))
      [] FUType(i) = "LOAD" ->
             IF f.computed_address # NONE THEN VInt(MemRead(m, f.computed_address))
             ELSE VInt(0)
      [] FUType(i) = "STORE" -> VInt(f.computed_address)
      [] OTHER -> VNone

\* ExecutionManager._handle_finished_execution for unit i; T is the record
\* threaded through the finished units: core fields + fus, timing, write_queue
HandleFinished(T, i, head, cyc, m) ==
    LET f == T.fus[i]
        ins == prog[f.instr + 1]
        raw == FUResult(i, f, m)
        taken_beq == Get0(f.Vj) = Get0(f.Vk)
        U == [T EXCEPT !.cur_uid = f.uid]
        N == CASE f.op = "BEQ" ->
                    CoreNotifyBranch(U, head, f.rob_index, taken_beq,
                        IF taken_beq THEN Mask16(Get0(f.pc) + 1 + Get0(f.imm))
                        ELSE Mask16(Get0(f.pc) + 1), ins.label)
               [] f.op = "CALL" ->
                    CoreNotifyBranch(U, head, f.rob_index, TRUE,
                        Mask16(Get0(f.pc) + 1 + Get0(f.imm)), ins.label)
               [] f.op = "RET" ->
                    CoreNotifyBranch(U, head, f.rob_index, TRUE, Mask16(Get0(f.Vj)), NONE)
               [] OTHER -> U
        result ==
            CASE f.op = "BEQ" -> VBranch(taken_beq, 0)
              [] f.op = "CALL" -> VCall(Mask16(Get0(f.pc) + 1), Mask16(Get0(f.pc) + 1 + Get0(f.imm)))
              [] f.op = "RET" -> VBranch(TRUE, Mask16(Get0(f.Vj)))
              [] f.op = "STORE" -> VStore(raw.v, Get0(f.store_value))
              [] OTHER -> raw
    IN [N EXCEPT
          !.timing = RecordFinishExec(T.timing, f.instr + 1, cyc),
          !.write_queue = Append(T.write_queue,
              [rob_index |-> f.rob_index, value |-> result, instruction_type |-> f.op,
               instr |-> f.instr, rs_entry_id |-> f.rs_entry_id, uid |-> f.uid,
               finish_cycle |-> cyc]),
          !.fus = [T.fus EXCEPT ![i] = FUReset(f)],
          !.notified = Append(T.notified, [uid |-> f.uid, op |-> f.op, cyc |-> cyc])]

RECURSIVE HandleAllFinished(_, _, _, _, _, _)
HandleAllFinished(T, i, fin, head, cyc, m) ==
    IF i > NumFU THEN T
    ELSE HandleAllFinished(IF i \in fin THEN HandleFinished(T, i, head, cyc, m) ELSE T,
                           i + 1, fin, head, cyc, m)

\* ------------------------------------------------------------------
\* Dispatch (ExecutionManager._start_ready_instructions)
\* ------------------------------------------------------------------
\* TomasuloCore.get_ready_rs_entries(): every slot whose is_ready() holds
ReadyRSEntries(S) ==
    SelectRS(RSOrder, 1, {n \in RSNames : RSIsReady(S[n])})

\* FUPool.get_available_fu(op): first unit of the class that is not busy
AvailableFU(F, op) ==
    LET free == {i \in FUIds : FUType(i) = FUMap(op) /\ F[i].state # "executing"}
    IN IF free = {} THEN NONE ELSE CHOOSE i \in free : \A j \in free : i <= j

\* FunctionalUnit.start_execution with the operands of get_rs_operands
StartedFU(i, f, name, r) ==
    [state |-> "executing", cycles_remaining |-> FULatency(i), instr |-> r.instr,
     op |-> prog[r.instr + 1].op, rob_index |-> r.dest, rs_entry_id |-> name,
     Vj |-> r.Vj, Vk |-> r.Vk,
     imm |-> IF r.A # NONE THEN r.A
             ELSE IF prog[r.instr + 1].op = "BEQ" THEN 0 ELSE NONE,
     pc |-> IF r.PC # NONE THEN r.PC
            ELSE IF prog[r.instr + 1].op \in {"BEQ", "CALL", "RET"} THEN 0 ELSE NONE,
     computed_address |-> IF FUType(i) \in {"LOAD", "STORE"} THEN NONE
                          ELSE f.computed_address,
     store_value |-> IF FUType(i) = "STORE" THEN Get0(r.Vj) ELSE f.store_value,
     uid |-> r.uid]

\* D threads fus, rs, timing and the list of started slots through the loop
RECURSIVE StartReady(_, _, _, _)
StartReady(D, ready, k, cyc) ==
    IF k > Len(ready) THEN D
    ELSE LET name == ready[k]
             r == D.rs[name]
             op == prog[r.instr + 1].op
             fu == AvailableFU(D.fus, op)
         IN IF fu = NONE THEN StartReady(D, ready, k + 1, cyc)
            ELSE StartReady(
                   [fus |-> [D.fus EXCEPT ![fu] = StartedFU(fu, D.fus[fu], name, r)],
                    rs |-> [D.rs EXCEPT ![name].state = "EXECUTING"],
                    timing |-> RecordStartExec(D.timing, r.instr + 1, cyc),
                    started |-> Append(D.started, [rs |-> name, fu |-> fu, uid |-> r.uid])],
                   ready, k + 1, cyc)

\* FUPool.flush_rs_entries(rs_entry_ids)
FlushFUs(F, ids) ==
    [i \in FUIds |-> IF F[i].rs_entry_id \in ids /\ F[i].state = "executing"
                     THEN FUReset(F[i]) ELSE F[i]]

\* ------------------------------------------------------------------
\* IntegratedSimulator._is_complete
\* ------------------------------------------------------------------
\* has_instructions() answers that nothing is left, whatever the pointer is
HasInstructionsNever == FALSE

\* IssueUnit.has_instructions()
HasInstructions == next_index < NumInstr

IsComplete ==
    IF rob_count > 0 THEN FALSE
    ELSE IF \E i \in FUIds : fus[i].state = "executing" THEN FALSE
    ELSE IF \E n \in RSNames : rs[n].busy THEN FALSE
    ELSE IF next_index >= NumInstr THEN TRUE
    ELSE IF ~HasInstructions THEN last_jump_index = NONE
    ELSE FALSE

\* ------------------------------------------------------------------
\* Inputs: programs, initial register file and memory
\* ------------------------------------------------------------------
\* instruction templates from which every short program is built
Alphabet ==
    { I_LOAD(1, 0, 0), I_ADD(2, 1, 1), I_NAND(1, 2, 2), I_MUL(3, 2, 2),
      I_STORE(2, 0, 0), I_CALL(0), I_RET, I_BEQ(0, 0, 0), I_ADD(0, 1, 1) }

ShortPrograms == UNION { [1..n -> Alphabet] : n \in 1..MaxProgLen }

\* longer programs, one per situation that short programs cannot reach
Scenarios ==
    { \* the ROB fills behind a multiply; the ninth instruction finds it full
      <<I_MUL(3, 2, 2), I_ADD(2, 1, 1), I_ADD(2, 1, 1), I_ADD(2, 1, 1), I_ADD(2, 1, 1),
        I_ADD(2, 1, 1), I_ADD(2, 1, 1), I_ADD(2, 1, 1), I_STORE(2, 0, 0), I_NAND(1, 2, 2)>>,
      \* the ROB is full when a CALL issues
      <<I_MUL(3, 2, 2), I_ADD(2, 1, 1), I_ADD(2, 1, 1), I_ADD(2, 1, 1), I_ADD(2, 1, 1),
        I_ADD(2, 1, 1), I_ADD(2, 1, 1), I_ADD(2, 1, 1), I_CALL(9), I_NAND(1, 2, 2)>>,
      \* the ROB wraps around; two results that straddle the wrap finish together
      <<I_ADD(2, 1, 1), I_ADD(2, 1, 1), I_ADD(2, 1, 1), I_ADD(2, 1, 1), I_ADD(2, 1, 1),
        I_ADD(2, 1, 1), I_MUL(3, 2, 2), I_ADD(2, 1, 1), I_NAND(1, 2, 2)>>,
      \* a RET waits for R1 while a younger STORE executes on the wrong path
      <<I_MUL(1, 2, 2), I_RET, I_STORE(2, 1, 0), I_ADD(2, 1, 1)>>,
      \* the same, with the STORE finishing in the cycle the multiply does
      <<I_MUL(1, 2, 2), I_RET, I_ADD(3, 2, 2), I_ADD(3, 2, 2), I_ADD(3, 2, 2),
        I_ADD(3, 2, 2), I_STORE(2, 1, 0)>>,
      \* a CALL over two instructions, then a RET back behind the CALL
      <<I_ADD(2, 1, 1), I_CALL(3), I_STORE(2, 1, 0), I_NAND(3, 2, 2), I_RET>>,
      \* an ADD slot is released and reused while the multiply is pending
      <<I_MUL(3, 2, 2), I_ADD(2, 1, 1), I_ADD(2, 1, 1), I_ADD(2, 1, 1), I_ADD(1, 3, 3)>>,
      \* two producers of R1 in flight when a consumer issues
      <<I_MUL(1, 2, 2), I_ADD(1, 2, 2), I_ADD(3, 1, 1), I_STORE(3, 0, 0)>>,
      \* a short loop closed by CALL: results on both sides of the wrap queue up
      <<I_LOAD(1, 0, 0), I_ADD(2, 1, 1), I_CALL(0)>>,
      \* a loop closed by CALL: the ROB wraps while entries are flushed
      <<I_LOAD(2, 0, 0), I_ADD(3, 2, 2), I_NAND(2, 3, 3), I_CALL(1)>>,
      \* a CALL flushes a waiting instruction; older and younger ones wait on
      <<I_MUL(3, 2, 2), I_ADD(1, 3, 3), I_CALL(4), I_ADD(2, 3, 3), I_ADD(2, 1, 1),
        I_NAND(1, 2, 2)>>,
      \* a loop whose ADD reads the register the CALL writes; the ROB fills
      \* and a wrong-path STORE is issued into the full ROB
      <<I_ADD(1, 1, 2), I_CALL(0), I_STORE(2, 0, 0)>>,
      \* a STORE, then eight instructions issued one at a time: the ninth
      \* takes the ROB index the STORE had
      <<I_STORE(2, 0, 0), I_NAND(1, 2, 2), I_NAND(1, 2, 2), I_NAND(1, 2, 2), I_NAND(1, 2, 2),
        I_NAND(1, 2, 2), I_NAND(1, 2, 2), I_NAND(1, 2, 2), I_NAND(1, 2, 2)>>,
      \* four additions behind a load: the ADD/SUB units are contended when
      \* the fourth is woken
      <<I_LOAD(1, 0, 0), I_ADD(2, 1, 1), I_ADD(1, 1, 1), I_ADD(2, 2, 2), I_ADD(2, 2, 2)>>,
      \* a RET whose return address is an instruction further down (R1 = 3)
      \* or the first instruction (R1 = 0)
      <<I_RET, I_ADD(2, 1, 1), I_ADD(2, 1, 1), I_NAND(3, 2, 2), I_ADD(2, 1, 1)>>,
      \* ten independent multiplies in a row
      <<I_MUL(3, 2, 2), I_MUL(3, 2, 2), I_MUL(3, 2, 2), I_MUL(3, 2, 2), I_MUL(3, 2, 2),
        I_MUL(3, 2, 2), I_MUL(3, 2, 2), I_MUL(3, 2, 2), I_MUL(3, 2, 2), I_MUL(3, 2, 2)>> }

Programs == ShortPrograms \cup Scenarios

InitRegFiles ==
    { [r \in Regs |-> 0],
      [r \in Regs |-> IF r = 1 THEN 3 ELSE IF r = 2 THEN 5 ELSE IF r = 3 THEN 50 ELSE 0] }
InitMemories == { (0 :> 7) @@ (1 :> 2) }

\* what a finished simulation leaves: no simulation has finished yet
NoResult == [cycle |-> NONE]

NoHist ==
    [next_uid |-> 1, flushed_uids |-> {}, flush_log |-> <<>>, notified |-> <<>>,
     commits |-> <<>>, mem_writers |-> {}, wb_done |-> <<>>, wb_lost |-> <<>>,
     started |-> <<>>, issued |-> <<>>, redirect |-> NONE,
     finished |-> <<>>]

Init ==
    /\ prog \in Programs
    /\ cycle = 0
    /\ phase = "idle"
    /\ crashed = FALSE
    /\ next_index = 0
    /\ last_jump_index = NONE
    /\ rob_queue = [i \in RobIdx |-> NoEntry]
    /\ rob_head = 0
    /\ rob_tail = 0
    /\ rob_count = 0
    /\ rat = [r \in Regs |-> NONE]
    /\ regs \in InitRegFiles
    /\ mem \in InitMemories
    /\ rs = [n \in RSNames |-> EmptyRS]
    /\ fus = [i \in FUIds |-> IdleFU]
    /\ write_queue = <<>>
    /\ cdb_busy = FALSE
    /\ cdb_current = NONE
    /\ cdb_pending = <<>>
    /\ timing = [id \in InstrIds |-> NoTiming]
    /\ pending_label = NONE
    /\ pending_rob_index = NONE
    /\ pending_target = NONE
    /\ recently_flushed_ids = <<>>
    /\ flushed_rs_entry_ids = <<>>
    /\ flushed_instructions = {}
    /\ progress = [last_rob_count |-> 0, no_progress_cycles |-> 0]
    /\ hist = NoHist
    /\ driver = [name |-> "step_cycle", regs0 |-> regs, mem0 |-> mem, first |-> NoResult]

robVars == <<rob_queue, rob_head, rob_tail, rob_count>>
pendVars == <<pending_label, pending_rob_index, pending_target>>
cdbVars == <<cdb_busy, cdb_current, cdb_pending>>
flushVars == <<recently_flushed_ids, flushed_rs_entry_ids, flushed_instructions>>

\* ------------------------------------------------------------------
\* step_cycle(), stage 1: the pending redirect is applied
\* ------------------------------------------------------------------
BeginCycle ==
    /\ driver.name = "step_cycle"
    /\ phase = "idle"
    /\ ~crashed
    /\ ~IsComplete
    /\ cycle < MaxCycle
    /\ cycle' = cycle + 1
    /\ phase' = "issue"
    /\ IF pending_label # NONE
       THEN LET j == JumpToIndex(pending_label, next_index, last_jump_index)
            IN /\ next_index' = j.next_index
               /\ last_jump_index' = j.last_jump_index
               /\ pending_label' = NONE
               /\ pending_rob_index' = NONE
               /\ UNCHANGED pending_target
       ELSE IF pending_target # NONE
       THEN /\ IF ReturnTargetValid(pending_target)
               THEN LET j == JumpToIndex(pending_target, next_index, last_jump_index)
                    IN /\ next_index' = j.next_index
                       /\ last_jump_index' = j.last_jump_index
               ELSE /\ next_index' = NumInstr
                    /\ UNCHANGED last_jump_index
            /\ pending_target' = NONE
            /\ UNCHANGED <<pending_label, pending_rob_index>>
       ELSE UNCHANGED <<next_index, last_jump_index, pendVars>>
    /\ hist' = [hist EXCEPT !.flush_log = <<>>, !.notified = <<>>, !.wb_done = <<>>,
                            !.wb_lost = <<>>, !.started = <<>>, !.issued = <<>>,
                            !.redirect = IF pending_label = NONE THEN pending_target
                                         ELSE NONE]
    /\ UNCHANGED <<prog, crashed, progress, robVars, rat, regs, mem, rs, fus, write_queue,
                   cdbVars, timing, flushVars>>
    /\ UNCHANGED driver

\* ------------------------------------------------------------------
\* step_cycle(), stage 2: issue_next(cycle)
\* ------------------------------------------------------------------
issueFrame == <<prog, cycle, progress, last_jump_index, regs, mem, fus, write_queue, cdbVars,
                pendVars, recently_flushed_ids, flushed_rs_entry_ids>>

\* has_instructions() is false: issue_next is not called
IssueSkip ==
    /\ phase = "issue"
    /\ next_index >= NumInstr
    /\ phase' = "wb1"
    /\ UNCHANGED <<issueFrame, crashed, next_index, robVars, rat, rs, timing,
                   flushed_instructions, hist>>
    /\ UNCHANGED driver

\* the instruction is in flight and may not be re-issued: (None, False)
IssueInFlightStall ==
    /\ phase = "issue"
    /\ next_index < NumInstr
    /\ InFlightBlocked
    /\ phase' = "wb1"
    /\ hist' = [hist EXCEPT !.issued = Append(@, [kind |-> "inflight", idx |-> next_index])]
    /\ UNCHANGED <<issueFrame, crashed, next_index, robVars, rat, rs, timing,
                   flushed_instructions>>
    /\ UNCHANGED driver

\* rs_issue finds no free slot of the class: (None, False)
IssueStallRS ==
    /\ phase = "issue"
    /\ next_index < NumInstr
    /\ ~InFlightBlocked
    /\ FreeSlot(prog[next_index + 1].op) = "NONE"
    /\ timing' = RecordIssue(timing, next_index + 1, cycle)
    /\ phase' = "wb1"
    /\ hist' = [hist EXCEPT !.issued = Append(@, [kind |-> "rs_full", idx |-> next_index])]
    /\ UNCHANGED <<issueFrame, crashed, next_index, robVars, rat, rs, flushed_instructions>>
    /\ UNCHANGED driver

\* BEQRS.push() is called with the keyword PC it does not accept: TypeError
IssueCrash ==
    /\ phase = "issue"
    /\ next_index < NumInstr
    /\ ~InFlightBlocked
    /\ prog[next_index + 1].op = "BEQ"
    /\ FreeSlot("BEQ") # "NONE"
    /\ timing' = RecordIssue(timing, next_index + 1, cycle)
    /\ crashed' = TRUE
    /\ phase' = "idle"
    /\ hist' = [hist EXCEPT !.issued = Append(@, [kind |-> "crash", idx |-> next_index])]
    /\ UNCHANGED <<issueFrame, next_index, robVars, rat, rs, flushed_instructions>>
    /\ UNCHANGED driver

\* the slot is taken, then rob.push() fails because the ROB is full
IssueStallROB ==
    /\ phase = "issue"
    /\ next_index < NumInstr
    /\ ~InFlightBlocked
    /\ prog[next_index + 1].op # "BEQ"
    /\ FreeSlot(prog[next_index + 1].op) # "NONE"
    /\ rob_count = ROB_SIZE
    /\ LET ins == prog[next_index + 1]
           slot == FreeSlot(ins.op)
       IN rs' = [rs EXCEPT ![slot] =
                    PushedRS(slot, ins, next_index, rob_tail % ROB_SIZE, hist.next_uid)]
    /\ timing' = RecordIssue(timing, next_index + 1, cycle)
    /\ phase' = "wb1"
    /\ hist' = [hist EXCEPT !.next_uid = @ + 1,
                            !.issued = Append(@, [kind |-> "rob_full", idx |-> next_index])]
    /\ UNCHANGED <<issueFrame, crashed, next_index, robVars, rat, flushed_instructions>>
    /\ UNCHANGED driver

\* the instruction is issued: RS slot, ROB entry, RAT, issue pointer
IssueOk ==
    /\ phase = "issue"
    /\ next_index < NumInstr
    /\ ~InFlightBlocked
    /\ prog[next_index + 1].op # "BEQ"
    /\ FreeSlot(prog[next_index + 1].op) # "NONE"
    /\ rob_count < ROB_SIZE
    /\ LET ins == prog[next_index + 1]
           slot == FreeSlot(ins.op)
           rob_index == rob_tail % ROB_SIZE
           dest_reg == DestReg(ins)
       IN /\ rs' = [rs EXCEPT ![slot] =
                       PushedRS(slot, ins, next_index, rob_index, hist.next_uid)]
          /\ rob_queue' = [rob_queue EXCEPT ![rob_tail] =
                 [name |-> ins.op, dest |-> dest_reg, ready |-> FALSE, value |-> VNone,
                  instr_id |-> next_index + 1, uid |-> hist.next_uid]]
          /\ rob_tail' = (rob_tail + 1) % ROB_SIZE
          /\ rob_count' = rob_count + 1
          /\ rat' = IF dest_reg # NONE THEN [rat EXCEPT ![dest_reg] = rob_index] ELSE rat
          /\ hist' = [hist EXCEPT !.next_uid = @ + 1,
                        !.issued = Append(@, [kind |-> "ok", idx |-> next_index])]
    /\ timing' = RecordIssue(timing, next_index + 1, cycle)
    /\ next_index' = next_index + 1
    /\ flushed_instructions' = flushed_instructions \ {next_index + 1}
    /\ phase' = "wb1"
    /\ UNCHANGED <<issueFrame, crashed, rob_head>>
    /\ UNCHANGED driver

\* ------------------------------------------------------------------
\* step_cycle(), stage 3: ExecutionManager.execute_cycle
\* ------------------------------------------------------------------
\* WriteBackStage.process_write_back with the CDB in state busy
ProcessWriteBack(busy, nextPhase) ==
    /\ phase' = nextPhase
    /\ IF write_queue = <<>>
       THEN /\ cdb_busy' = busy
            /\ cdb_current' = IF busy THEN cdb_current ELSE NONE
            /\ UNCHANGED <<write_queue, cdb_pending, rob_queue, rs, mem, timing, hist>>
       ELSE LET a == Arbitrate(write_queue, GetOldestReadyRobIndex)
                res == a.result
            IN /\ write_queue' = a.rest
               /\ IF busy
                  THEN \* CDB.broadcast refuses: the popped result is only
                       \* appended to CDB.pending_broadcasts
                       /\ cdb_pending' = Append(cdb_pending, res.rob_index)
                       /\ cdb_busy' = TRUE
                       /\ UNCHANGED <<cdb_current, rob_queue, rs, mem, timing>>
                       /\ hist' = [hist EXCEPT !.wb_lost = Append(@, res)]
                  ELSE /\ cdb_busy' = TRUE
                       /\ cdb_current' = res.rob_index
                       /\ UNCHANGED cdb_pending
                       /\ mem' = IF res.instruction_type = "STORE"
                                 THEN MemWrite(mem, res.value.t, res.value.v)
                                 ELSE mem
                       /\ rob_queue' = RobUpdate(rob_queue, rob_head, rob_count,
                                                 res.rob_index, RobValueOf(res))
                       /\ rs' = ClearRSEntry(
                                  IF res.instruction_type \in {"STORE", "BEQ", "CALL", "RET"}
                                  THEN rs
                                  ELSE ForwardToRS(rs, rob_queue', rob_head, rob_count,
                                                   res.rob_index, res.value.v),
                                  res.rs_entry_id)
                       /\ timing' = RecordWrite(timing, res.instr + 1, cycle)
                       /\ hist' = [hist EXCEPT
                              !.wb_done = Append(@, [res |-> res, queue |-> write_queue,
                                                     head |-> rob_head, pre_rs |-> rs]),
                              !.mem_writers = IF res.instruction_type = "STORE"
                                              THEN @ \cup {res.uid} ELSE @]

wbFrame == <<prog, cycle, crashed, progress, next_index, last_jump_index, rob_head, rob_tail,
             rob_count, rat, regs, fus, pendVars, flushVars>>

\* cdb.clear(), then the first write-back pass
WriteBack1 ==
    /\ phase = "wb1"
    /\ ProcessWriteBack(FALSE, "tick")
    /\ UNCHANGED wbFrame
    /\ UNCHANGED driver

\* fu_pool.tick_all(), then _handle_finished_execution for each finished unit
Tick ==
    /\ phase = "tick"
    /\ LET ticked == [i \in FUIds |-> FUTick(i, fus[i])]
           fin == {i \in FUIds : FUFinished(ticked[i])}
           T0 == [rob_queue |-> rob_queue, rob_tail |-> rob_tail, rob_count |-> rob_count,
                  rat |-> rat, rs |-> rs, pending_label |-> pending_label,
                  pending_rob_index |-> pending_rob_index,
                  pending_target |-> pending_target,
                  recently_flushed_ids |-> recently_flushed_ids,
                  flushed_rs_entry_ids |-> flushed_rs_entry_ids,
                  flushed_uids |-> hist.flushed_uids, flush_log |-> hist.flush_log,
                  head |-> rob_head, cur_uid |-> NONE,
                  timing |-> timing, write_queue |-> write_queue, fus |-> ticked,
                  notified |-> hist.notified]
           T == HandleAllFinished(T0, 1, fin, rob_head, cycle, mem)
       IN /\ rob_queue' = T.rob_queue
          /\ rob_tail' = T.rob_tail
          /\ rob_count' = T.rob_count
          /\ rat' = T.rat
          /\ rs' = T.rs
          /\ pending_label' = T.pending_label
          /\ pending_rob_index' = T.pending_rob_index
          /\ pending_target' = T.pending_target
          /\ recently_flushed_ids' = T.recently_flushed_ids
          /\ flushed_rs_entry_ids' = T.flushed_rs_entry_ids
          /\ timing' = T.timing
          /\ write_queue' = T.write_queue
          /\ fus' = T.fus
          /\ hist' = [hist EXCEPT !.flushed_uids = T.flushed_uids,
                                  !.flush_log = T.flush_log,
                                  !.notified = T.notified,
                                  !.finished = @ \o T.notified]
    /\ phase' = "wb2"
    /\ UNCHANGED <<prog, cycle, crashed, progress, next_index, last_jump_index, rob_head, regs, mem,
                   cdbVars, flushed_instructions>>
    /\ UNCHANGED driver

\* a second pass that finds the CDB cleared again
WriteBack2Cleared ==
    /\ phase = "wb2"
    /\ ProcessWriteBack(FALSE, "dispatch")
    /\ UNCHANGED wbFrame
    /\ UNCHANGED driver

\* the second write-back pass: the CDB keeps the state of the first pass
WriteBack2 ==
    /\ phase = "wb2"
    /\ ProcessWriteBack(cdb_busy, "dispatch")
    /\ UNCHANGED wbFrame
    /\ UNCHANGED driver

\* _start_ready_instructions()
Dispatch ==
    /\ phase = "dispatch"
    /\ LET D == StartReady([fus |-> fus, rs |-> rs, timing |-> timing, started |-> <<>>],
                           ReadyRSEntries(rs), 1, cycle)
       IN /\ fus' = D.fus
          /\ rs' = D.rs
          /\ timing' = D.timing
          /\ hist' = [hist EXCEPT !.started = D.started]
    /\ phase' = "track"
    /\ UNCHANGED <<prog, cycle, crashed, progress, next_index, last_jump_index, robVars, rat,
                   regs, mem, write_queue, cdbVars, pendVars, flushVars>>
    /\ UNCHANGED driver

\* step_cycle() 3.5 / 3.6: flushed ids are recorded, flushed units are reset
TrackFlushed ==
    /\ driver.name = "step_cycle"
    /\ phase = "track"
    /\ flushed_instructions' = flushed_instructions \cup
           (SeqToSet(recently_flushed_ids) \ {NONE})
    /\ recently_flushed_ids' = <<>>
    /\ fus' = FlushFUs(fus, SeqToSet(flushed_rs_entry_ids))
    /\ flushed_rs_entry_ids' = <<>>
    /\ phase' = "commit"
    /\ UNCHANGED <<prog, cycle, crashed, progress, next_index, last_jump_index, robVars, rat,
                   regs, mem, rs, write_queue, cdbVars, timing, pendVars, hist>>
    /\ UNCHANGED driver

\* ------------------------------------------------------------------
\* step_cycle(), stage 4: the commit loop (TomasuloCore.commit_rob_entry)
\* ------------------------------------------------------------------
\* the head test without the ready flag
CommitHeadAny == rob_count > 0 /\ rob_queue[rob_head].name # "NONE"

\* commit_rob_entry returns an entry: the head exists and is ready
CommitHeadReady ==
    rob_count > 0 /\ rob_queue[rob_head].name # "NONE" /\ rob_queue[rob_head].ready

\* the commit cycle is recorded whatever the table holds for the instruction
CommitTimingAlways(tm, id, cyc) ==
    IF id # NONE THEN RecordCommit(tm, id, cyc) ELSE tm

CommitTiming(tm, id, cyc) ==
    IF id # NONE /\ tm[id] # NoTiming /\ tm[id].commit = NONE
       /\ tm[id].finish_exec # NONE /\ tm[id].write # NONE /\ cyc >= tm[id].write
    THEN RecordCommit(tm, id, cyc)
    ELSE tm

\* RegisterFile.write(dest, value) raises TypeError: the head is an
\* arithmetic or LOAD entry whose value is a CALL result (a dict), dest # R0
CommitWriteFails(e) ==
    /\ e.name \in {"LOAD", "ADD", "SUB", "NAND", "MUL"}
    /\ e.value.k = "call"
    /\ e.dest # 0

CommitEntry ==
    /\ phase = "commit"
    /\ CommitHeadReady
    /\ ~CommitWriteFails(rob_queue[rob_head])
    /\ LET e == rob_queue[rob_head]
           clr == IF e.dest # NONE /\ rat[e.dest] = rob_head
                  THEN [rat EXCEPT ![e.dest] = NONE] ELSE rat
       IN /\ timing' = CommitTiming(timing, e.instr_id, cycle)
          /\ regs' = IF e.name \in {"LOAD", "ADD", "SUB", "NAND", "MUL", "CALL"}
                        /\ e.value.k # "none"
                     THEN RegWrite(regs, e.dest, e.value.v)
                     ELSE regs
          /\ rat' = IF e.name = "STORE" THEN rat ELSE clr
          /\ hist' = [hist EXCEPT !.commits = Append(@,
                         [uid |-> e.uid, idx |-> rob_head, cyc |-> cycle,
                          instr_id |-> e.instr_id])]
    /\ rob_queue' = [rob_queue EXCEPT ![rob_head] = NoEntry]
    /\ rob_head' = (rob_head + 1) % ROB_SIZE
    /\ rob_count' = rob_count - 1
    /\ UNCHANGED <<prog, cycle, phase, crashed, progress, next_index, last_jump_index, rob_tail,
                   mem,
                   rs, fus, write_queue, cdbVars, pendVars, flushVars>>
    /\ UNCHANGED driver

\* the commit timing is recorded, then the register write raises
CommitCrash ==
    /\ phase = "commit"
    /\ CommitHeadReady
    /\ CommitWriteFails(rob_queue[rob_head])
    /\ timing' = CommitTiming(timing, rob_queue[rob_head].instr_id, cycle)
    /\ crashed' = TRUE
    /\ phase' = "idle"
    /\ UNCHANGED <<prog, cycle, progress, next_index, last_jump_index, robVars, rat, regs,
                   mem, rs, fus, write_queue, cdbVars, pendVars, flushVars, hist>>
    /\ UNCHANGED driver

\* IntegratedSimulator._check_progress
CheckProgress(pr, count) ==
    IF count # pr.last_rob_count
    THEN [last_rob_count |-> count, no_progress_cycles |-> 0]
    ELSE [pr EXCEPT !.no_progress_cycles = @ + 1]

\* a commit loop that may stop at any pass, whatever the head is
CommitStopsAnywhere == phase = "commit"

\* commit_rob_entry has nothing to return: the head is absent or not ready
CommitLoopEnds == ~CommitHeadReady

\* commit_rob_entry returns None: the loop and the cycle end
CommitDone ==
    /\ driver.name = "step_cycle"
    /\ phase = "commit"
    /\ CommitLoopEnds
    /\ phase' = "idle"
    /\ progress' = CheckProgress(progress, rob_count)
    /\ UNCHANGED <<prog, cycle, crashed, next_index, last_jump_index, robVars, rat, regs,
                   mem, rs, fus, write_queue, cdbVars, timing, pendVars, flushVars, hist>>
    /\ UNCHANGED driver

Next ==
    \/ BeginCycle
    \/ IssueSkip
    \/ IssueInFlightStall
    \/ IssueStallRS
    \/ IssueCrash
    \/ IssueStallROB
    \/ IssueOk
    \/ WriteBack1
    \/ Tick
    \/ WriteBack2
    \/ Dispatch
    \/ TrackFlushed
    \/ CommitEntry
    \/ CommitCrash
    \/ CommitDone

Spec == Init /\ [][Next]_vars

\* ------------------------------------------------------------------
\* IntegratedSimulator.run(): the same cycle, driven by its own loop
\* ------------------------------------------------------------------
\* the loop goes on: the watchdog has not been reached, is_complete is false
\* a loop test that lets the cycle of the maximum begin one more cycle
WatchdogAllowsOneMore == cycle <= MaxCycle

\* while self.current_cycle < self.max_cycles
WatchdogAllows == cycle < MaxCycle

RunBegin ==
    /\ driver.name = "run"
    /\ phase = "idle"
    /\ ~crashed
    /\ WatchdogAllows
    /\ ~IsComplete
    /\ cycle' = cycle + 1
    /\ phase' = "issue"
    /\ hist' = [hist EXCEPT !.flush_log = <<>>, !.notified = <<>>, !.wb_done = <<>>,
                            !.wb_lost = <<>>, !.started = <<>>, !.issued = <<>>,
                            !.redirect = NONE]
    /\ UNCHANGED <<prog, crashed, progress, next_index, last_jump_index, pendVars, robVars,
                   rat, regs, mem, rs, fus, write_queue, cdbVars, timing, flushVars, driver>>

\* run() 2.5 / 2.6: flushed ids are recorded, flushed units are reset, and
\* the pending redirect is applied before the commit loop of the same cycle
RunTrackFlushed ==
    /\ driver.name = "run"
    /\ phase = "track"
    /\ flushed_instructions' = flushed_instructions \cup
           (SeqToSet(recently_flushed_ids) \ {NONE})
    /\ recently_flushed_ids' = <<>>
    /\ fus' = FlushFUs(fus, SeqToSet(flushed_rs_entry_ids))
    /\ flushed_rs_entry_ids' = <<>>
    /\ IF pending_label # NONE
       THEN LET j == JumpToIndex(pending_label, next_index, last_jump_index)
            IN /\ next_index' = j.next_index
               /\ last_jump_index' = j.last_jump_index
               /\ pending_label' = NONE
               /\ pending_rob_index' = NONE
               /\ UNCHANGED pending_target
       ELSE IF pending_target # NONE
       THEN /\ IF ReturnTargetValid(pending_target)
               THEN LET j == JumpToIndex(pending_target, next_index, last_jump_index)
                    IN /\ next_index' = j.next_index
                       /\ last_jump_index' = j.last_jump_index
               ELSE /\ next_index' = NumInstr
                    /\ UNCHANGED last_jump_index
            /\ pending_target' = NONE
            /\ UNCHANGED <<pending_label, pending_rob_index>>
       ELSE UNCHANGED <<next_index, last_jump_index, pendVars>>
    /\ phase' = "commit"
    /\ UNCHANGED <<prog, cycle, crashed, progress, robVars, rat, regs, mem, rs, write_queue,
                   cdbVars, timing, hist, driver>>

\* commit_rob_entry returns None: the commit loop of run() ends
RunCommitDone ==
    /\ driver.name = "run"
    /\ phase = "commit"
    /\ CommitLoopEnds
    /\ phase' = "idle"
    /\ UNCHANGED <<prog, cycle, crashed, progress, next_index, last_jump_index, robVars, rat,
                   regs, mem, rs, fus, write_queue, cdbVars, timing, pendVars, flushVars,
                   hist, driver>>

\* the simulator is constructed to be driven by run()
RunInit ==
    /\ prog \in Programs
    /\ cycle = 0
    /\ phase = "idle"
    /\ crashed = FALSE
    /\ next_index = 0
    /\ last_jump_index = NONE
    /\ rob_queue = [i \in RobIdx |-> NoEntry]
    /\ rob_head = 0
    /\ rob_tail = 0
    /\ rob_count = 0
    /\ rat = [r \in Regs |-> NONE]
    /\ regs \in InitRegFiles
    /\ mem \in InitMemories
    /\ rs = [n \in RSNames |-> EmptyRS]
    /\ fus = [i \in FUIds |-> IdleFU]
    /\ write_queue = <<>>
    /\ cdb_busy = FALSE
    /\ cdb_current = NONE
    /\ cdb_pending = <<>>
    /\ timing = [id \in InstrIds |-> NoTiming]
    /\ pending_label = NONE
    /\ pending_rob_index = NONE
    /\ pending_target = NONE
    /\ recently_flushed_ids = <<>>
    /\ flushed_rs_entry_ids = <<>>
    /\ flushed_instructions = {}
    /\ progress = [last_rob_count |-> 0, no_progress_cycles |-> 0]
    /\ hist = NoHist
    /\ driver = [name |-> "run", regs0 |-> regs, mem0 |-> mem, first |-> NoResult]

RunNext ==
    \/ RunBegin
    \/ IssueSkip
    \/ IssueInFlightStall
    \/ IssueStallRS
    \/ IssueCrash
    \/ IssueStallROB
    \/ IssueOk
    \/ WriteBack1
    \/ Tick
    \/ WriteBack2
    \/ Dispatch
    \/ RunTrackFlushed
    \/ CommitEntry
    \/ CommitCrash
    \/ RunCommitDone

RunSpec == RunInit /\ [][RunNext]_vars

\* run() returns, or an exception leaves it
RunHalted ==
    /\ driver.name = "run"
    /\ phase = "idle"
    /\ (crashed \/ IsComplete \/ cycle >= MaxCycle)

\* ------------------------------------------------------------------
\* The same program and initial state, first with run(), then on a fresh
\* simulator with calls of step_cycle() until is_complete or the maximum
\* ------------------------------------------------------------------
\* what a finished simulation leaves to its caller
Result ==
    [cycle |-> cycle, crashed |-> crashed, regs |-> regs, mem |-> mem, timing |-> timing]

\* run() has ended; a second simulator is constructed on the same input
Restart ==
    /\ RunHalted
    /\ driver' = [driver EXCEPT !.name = "step_cycle", !.first = Result]
    /\ cycle' = 0
    /\ phase' = "idle"
    /\ crashed' = FALSE
    /\ next_index' = 0
    /\ last_jump_index' = NONE
    /\ rob_queue' = [i \in RobIdx |-> NoEntry]
    /\ rob_head' = 0
    /\ rob_tail' = 0
    /\ rob_count' = 0
    /\ rat' = [r \in Regs |-> NONE]
    /\ regs' = driver.regs0
    /\ mem' = driver.mem0
    /\ rs' = [n \in RSNames |-> EmptyRS]
    /\ fus' = [i \in FUIds |-> IdleFU]
    /\ write_queue' = <<>>
    /\ cdb_busy' = FALSE
    /\ cdb_current' = NONE
    /\ cdb_pending' = <<>>
    /\ timing' = [id \in InstrIds |-> NoTiming]
    /\ pending_label' = NONE
    /\ pending_rob_index' = NONE
    /\ pending_target' = NONE
    /\ recently_flushed_ids' = <<>>
    /\ flushed_rs_entry_ids' = <<>>
    /\ flushed_instructions' = {}
    /\ progress' = [last_rob_count |-> 0, no_progress_cycles |-> 0]
    /\ hist' = NoHist
    /\ UNCHANGED prog

\* the caller of step_cycle() stops: is_complete, the maximum, or an exception
StepHalted ==
    /\ driver.name = "step_cycle"
    /\ phase = "idle"
    /\ (crashed \/ IsComplete \/ cycle >= MaxCycle)

BothNext ==
    \/ RunBegin
    \/ RunTrackFlushed
    \/ RunCommitDone
    \/ Restart
    \/ BeginCycle
    \/ TrackFlushed
    \/ CommitDone
    \/ IssueSkip
    \/ IssueInFlightStall
    \/ IssueStallRS
    \/ IssueCrash
    \/ IssueStallROB
    \/ IssueOk
    \/ WriteBack1
    \/ Tick
    \/ WriteBack2
    \/ Dispatch
    \/ CommitEntry
    \/ CommitCrash

BothSpec == RunInit /\ [][BothNext]_vars

\* the loop of run() is never suspended: as long as run() has not halted,
\* steps keep being taken (weak fairness of RunNext, which is enabled in
\* every state that is not halted)
RunFairSpec == RunSpec /\ ([]<>RunHalted \/ []<><<RunNext>>_vars)

\* ------------------------------------------------------------------
\* The arithmetic units on their own: compute_result() of AddSubFU, NandFU
\* and MulFU applied to one pair of 16-bit operands
\* ------------------------------------------------------------------
AluOps == {"ADD", "SUB", "NAND", "MUL"}

\* operand values around the edges of the 16-bit range and of its halves
AluOperands ==
    {0, 1, 2, 3, 255, 256, 257, 21845, 32767, 32768, 43690, 65534, 65535}

\* the first unit of the class that executes op
AluUnit(op) == CHOOSE i \in FUIds : FUType(i) = FUMap(op) /\ \A j \in FUIds : FUType(j) = FUMap(op) => i <= j

AluInit ==
    /\ prog = <<I_ADD(2, 1, 1)>>
    /\ cycle = 0
    /\ phase = "idle"
    /\ crashed = FALSE
    /\ next_index = 0
    /\ last_jump_index = NONE
    /\ rob_queue = [i \in RobIdx |-> NoEntry]
    /\ rob_head = 0
    /\ rob_tail = 0
    /\ rob_count = 0
    /\ rat = [r \in Regs |-> NONE]
    /\ regs = [r \in Regs |-> 0]
    /\ mem \in InitMemories
    /\ rs = [n \in RSNames |-> EmptyRS]
    /\ fus = [i \in FUIds |-> IdleFU]
    /\ write_queue = <<>>
    /\ cdb_busy = FALSE
    /\ cdb_current = NONE
    /\ cdb_pending = <<>>
    /\ timing = [id \in InstrIds |-> NoTiming]
    /\ pending_label = NONE
    /\ pending_rob_index = NONE
    /\ pending_target = NONE
    /\ recently_flushed_ids = <<>>
    /\ flushed_rs_entry_ids = <<>>
    /\ flushed_instructions = {}
    /\ progress = [last_rob_count |-> 0, no_progress_cycles |-> 0]
    /\ hist = NoHist
    /\ \E op \in AluOps, a \in AluOperands, b \in AluOperands :
          driver = [name |-> "alu", op |-> op, a |-> a, b |-> b, result |-> NONE]

\* start_execution() with the operands, then compute_result()
AluCompute ==
    /\ driver.name = "alu"
    /\ driver.result = NONE
    /\ LET i == AluUnit(driver.op)
           f == [IdleFU EXCEPT !.state = "executing", !.op = driver.op,
                               !.Vj = driver.a, !.Vk = driver.b]
       IN driver' = [driver EXCEPT !.result = FUResult(i, f, mem).v]
    /\ UNCHANGED <<prog, cycle, phase, crashed, next_index, last_jump_index,
                   rob_queue, rob_head, rob_tail, rob_count, rat, regs, mem, rs, fus,
                   write_queue, cdb_busy, cdb_current, cdb_pending, timing,
                   pending_label, pending_rob_index, pending_target,
                   recently_flushed_ids, flushed_rs_entry_ids, flushed_instructions,
                   progress, hist>>

AluNext == AluCompute

AluSpec == AluInit /\ [][AluNext]_vars

\* ==================================================================
\* Properties
\* ==================================================================
LiveRob == RobLive(rob_head, rob_count)

\* ------------------------------------------------------------------
\* C1: commit removes only the ROB head, and only when its ready flag is
\* set; instructions leave the ROB by commit in the order of their issue
\* ------------------------------------------------------------------
C1_CommitStep ==
    (phase = "commit" /\ rob_queue' # rob_queue) =>
        /\ rob_count > 0
        /\ rob_queue[rob_head].name # "NONE"
        /\ rob_queue[rob_head].ready
        /\ rob_queue' = [rob_queue EXCEPT ![rob_head] = NoEntry]
        /\ rob_head' = (rob_head + 1) % ROB_SIZE
        /\ rob_count' = rob_count - 1

C1_IssueOrder ==
    \A i, j \in 1..Len(hist.commits) :
        i < j => hist.commits[i].uid < hist.commits[j].uid

C1_CommitInOrder == []C1_IssueOrder /\ [][C1_CommitStep]_vars

\* a younger entry is ready while the head is not, after earlier commits
C1_Witness ==
    /\ phase = "commit"
    /\ Len(hist.commits) >= 2
    /\ rob_count >= 2
    /\ ~rob_queue[rob_head].ready
    /\ \E i \in LiveRob \ {rob_head} : rob_queue[i].ready

\* ------------------------------------------------------------------
\* C2: an instruction discarded by a flush never commits and, if it is a
\* STORE, never writes memory: every memory write is performed by a STORE
\* that is not flushed
\* ------------------------------------------------------------------
CommittedUids == {hist.commits[i].uid : i \in 1..Len(hist.commits)}

C2_FlushedNeverCommits == CommittedUids \cap hist.flushed_uids = {}

C2_FlushedStoreNeverWrites == hist.mem_writers \cap hist.flushed_uids = {}

C2_FlushedHasNoEffect == C2_FlushedNeverCommits /\ C2_FlushedStoreNeverWrites

\* ------------------------------------------------------------------
\* C3: at the end of a cycle in which a taken branch flushed, no busy RS
\* slot (as destination or as waiting tag), no executing functional unit
\* and no ROB entry refers to a ROB index discarded by that flush
\* ------------------------------------------------------------------
FlushedThisCycle ==
    UNION {hist.flush_log[i].idxs : i \in 1..Len(hist.flush_log)}

EndOfCycle == phase = "idle" /\ cycle > 0 /\ ~crashed

C3_NoRSRef ==
    \A n \in RSNames : rs[n].busy =>
        /\ rs[n].dest \notin FlushedThisCycle
        /\ rs[n].Qj \notin FlushedThisCycle
        /\ rs[n].Qk \notin FlushedThisCycle

C3_NoFURef ==
    \A i \in FUIds : fus[i].state = "executing" => fus[i].rob_index \notin FlushedThisCycle

C3_NoROBRef == LiveRob \cap FlushedThisCycle = {}

C3_NoStaleReference ==
    EndOfCycle => (C3_NoRSRef /\ C3_NoFURef /\ C3_NoROBRef)

\* ------------------------------------------------------------------
\* C4: a flush triggered by the branch at ROB index b removes exactly the
\* ROB entries younger than b; the entry b and the older entries stay,
\* and the RS slots, functional units and RAT mappings of instructions at
\* or older than b are left unchanged
\* ------------------------------------------------------------------
RobDist(h, i) == (i - h + ROB_SIZE) % ROB_SIZE

\* the live indices strictly younger than b before the flush L
YoungerThan(L) ==
    {i \in RobLive(L.head, L.pre_count) : RobDist(L.head, i) > RobDist(L.head, L.branch)}

\* the flushing branch owns the entry at L.branch
C4_BranchEntryLive(L) ==
    /\ L.branch \in RobLive(L.head, L.pre_count)
    /\ L.pre_queue[L.branch].uid = L.by_uid

C4_ExactlyYounger(L) == L.idxs = YoungerThan(L)

C4_OlderRSKept(L) == \A n \in L.rs_hit : L.pre_rs[n].uid > L.by_uid

C4_OlderRATKept(L) ==
    \A r \in Regs : L.pre_rat[r] \in L.idxs => L.pre_queue[L.pre_rat[r]].uid > L.by_uid

\* the units reset after the flush belong to younger instructions
C4_OlderFUKept ==
    (phase = "track" /\ hist.flush_log # <<>>) =>
        \A i \in FUIds :
            (fus[i].state = "executing" /\ fus[i].rs_entry_id \in SeqToSet(flushed_rs_entry_ids))
                => fus[i].uid > hist.flush_log[Len(hist.flush_log)].by_uid

C4_Branch == \A k \in 1..Len(hist.flush_log) : C4_BranchEntryLive(hist.flush_log[k])
C4_Younger == \A k \in 1..Len(hist.flush_log) : C4_ExactlyYounger(hist.flush_log[k])
C4_RS == \A k \in 1..Len(hist.flush_log) : C4_OlderRSKept(hist.flush_log[k])
C4_RAT == \A k \in 1..Len(hist.flush_log) : C4_OlderRATKept(hist.flush_log[k])

C4_FlushExact == C4_Branch /\ C4_Younger /\ C4_RS /\ C4_RAT /\ C4_OlderFUKept

\* ------------------------------------------------------------------
\* C5: at issue, a source register with in-flight producers is renamed to
\* its youngest producer: the producer's value if it is ready with an
\* integer, otherwise a wait on its ROB index; the register file is read
\* only when the register has no in-flight producer
\* ------------------------------------------------------------------
RegWriters == {"LOAD", "ADD", "SUB", "NAND", "MUL", "CALL"}

Producers(r) ==
    {i \in LiveRob : rob_queue[i].name \in RegWriters /\ rob_queue[i].dest = r}

YoungestProducer(r) ==
    CHOOSE i \in Producers(r) :
        \A j \in Producers(r) : RobDist(rob_head, j) <= RobDist(rob_head, i)

\* the operand <<V, Q>> the claim prescribes for source register r
RenamedOperand(r) ==
    IF Producers(r) = {} THEN <<regs[r], NONE>>
    ELSE LET e == rob_queue[YoungestProducer(r)]
         IN IF e.ready /\ e.value.k = "int" THEN <<e.value.v, NONE>>
            ELSE <<NONE, YoungestProducer(r)>>

\* the slot filled by this issue step
IssuedSlot == CHOOSE n \in RSNames : rs'[n] # rs[n]

C5_IssueStep ==
    (phase = "issue" /\ next_index' = next_index + 1) =>
        LET sr == SourceRegs(prog[next_index + 1])
            r == rs'[IssuedSlot]
        IN /\ sr[1] # NONE => <<r.Vj, r.Qj>> = RenamedOperand(sr[1])
           /\ sr[2] # NONE => <<r.Vk, r.Qk>> = RenamedOperand(sr[2])

C5_YoungestProducer == [][C5_IssueStep]_vars

\* ------------------------------------------------------------------
\* C6: when an arithmetic or LOAD result (k, v) is broadcast, every busy
\* RS operand slot that waits on k holds the value v after that
\* write-back, and no operand slot waiting on another ROB index changes
\* ------------------------------------------------------------------
ValueOps == {"ADD", "SUB", "NAND", "MUL", "LOAD"}

\* this step is a write-back that takes effect
EffectiveWriteBack ==
    phase \in {"wb1", "wb2"} /\ Len(hist'.wb_done) > Len(hist.wb_done)

BroadcastResult == hist'.wb_done[Len(hist'.wb_done)].res

C6_Woken(n, k, v) ==
    /\ rs[n].Qj = k => (rs'[n].Qj = NONE /\ rs'[n].Vj = v)
    /\ rs[n].Qk = k => (rs'[n].Qk = NONE /\ rs'[n].Vk = v)

C6_OthersKept(n, k) ==
    /\ rs[n].Qj \notin {NONE, k} => (rs'[n].Qj = rs[n].Qj /\ rs'[n].Vj = rs[n].Vj)
    /\ rs[n].Qk \notin {NONE, k} => (rs'[n].Qk = rs[n].Qk /\ rs'[n].Vk = rs[n].Vk)

C6_WakeStep ==
    (EffectiveWriteBack /\ BroadcastResult.instruction_type \in ValueOps) =>
        \A n \in RSNames : rs[n].busy =>
            C6_Woken(n, BroadcastResult.rob_index, BroadcastResult.value.v)

C6_FrameStep ==
    (EffectiveWriteBack /\ BroadcastResult.instruction_type \in ValueOps) =>
        \A n \in RSNames : rs[n].busy => C6_OthersKept(n, BroadcastResult.rob_index)

C6_Wake == [][C6_WakeStep]_vars
C6_Frame == [][C6_FrameStep]_vars
C6_TagForwarding == [][C6_WakeStep /\ C6_FrameStep]_vars

\* ------------------------------------------------------------------
\* C7: in every cycle at most one write-back takes effect, across both
\* write-back passes (ROB entry marked ready, value forwarded, STORE
\* memory write, RS slot released)
\* ------------------------------------------------------------------
C7_OnePerCycle == Len(hist.wb_done) <= 1

\* once a write-back took effect, the second pass changes nothing
C7_SecondPassStep ==
    (phase = "wb2" /\ Len(hist.wb_done) >= 1) =>
        (rob_queue' = rob_queue /\ rs' = rs /\ mem' = mem /\ timing' = timing)

C7_SingleBroadcast == []C7_OnePerCycle /\ [][C7_SecondPassStep]_vars

\* both passes had a result to write, one took effect
C7_Witness ==
    /\ phase = "dispatch"
    /\ Len(hist.wb_done) = 1
    /\ Len(hist.wb_lost) = 1

\* ------------------------------------------------------------------
\* C8: a finished result leaves the write-back queue only by a write-back
\* that takes effect; a result that does not obtain the CDB stays queued
\* ------------------------------------------------------------------
C8_LeaveStep ==
    Len(write_queue') < Len(write_queue) => Len(hist'.wb_done) > Len(hist.wb_done)

C8_NeverDropped == [][C8_LeaveStep]_vars

\* ------------------------------------------------------------------
\* C9: the result broadcast is the queued result whose ROB index is the
\* closest to the ROB head, measured over the circular buffer
\* ------------------------------------------------------------------
C9_PickStep ==
    EffectiveWriteBack =>
        \A i \in 1..Len(write_queue) :
            RobDist(rob_head, BroadcastResult.rob_index)
                <= RobDist(rob_head, write_queue[i].rob_index)

C9_OldestFirst == [][C9_PickStep]_vars

\* ------------------------------------------------------------------
\* C10: when issue_next fails because the RS class has no free slot or
\* the ROB is full, the issue pointer, the ROB, the RAT, every RS slot
\* and the timing table are as before the call
\* ------------------------------------------------------------------
StructuralStall ==
    /\ phase = "issue"
    /\ next_index < NumInstr
    /\ ~InFlightBlocked
    /\ prog[next_index + 1].op # "BEQ"
    /\ (FreeSlot(prog[next_index + 1].op) = "NONE" \/ rob_count = ROB_SIZE)

C10_StallStep ==
    StructuralStall =>
        /\ next_index' = next_index
        /\ robVars' = robVars
        /\ rat' = rat
        /\ rs' = rs
        /\ timing' = timing

C10_StallChangesNothing == [][C10_StallStep]_vars

\* ------------------------------------------------------------------
\* C11: between cycles, an RS slot is busy exactly when it holds an
\* instruction that owns a live ROB entry, at the slot's destination
\* index, whose result has not been broadcast: every busy slot has such an
\* entry, and every ROB entry that is not ready has a busy slot
\* ------------------------------------------------------------------
C11_BusyHasEntry ==
    \A n \in RSNames : rs[n].busy =>
        /\ rs[n].dest \in LiveRob
        /\ rob_queue[rs[n].dest].uid = rs[n].uid
        /\ ~rob_queue[rs[n].dest].ready

C11_EntryHasSlot ==
    \A i \in LiveRob : ~rob_queue[i].ready =>
        \E n \in RSNames : rs[n].busy /\ rs[n].dest = i /\ rs[n].uid = rob_queue[i].uid

C11_BusyOnly == EndOfCycle => C11_BusyHasEntry
C11_AllWaiting == EndOfCycle => C11_EntryHasSlot

C11_BusyIffInFlight == EndOfCycle => (C11_BusyHasEntry /\ C11_EntryHasSlot)

\* ------------------------------------------------------------------
\* C12: between cycles, every waiting tag (Qj, Qk) of a busy RS slot is
\* the index of a live ROB entry that is not ready and that belongs to an
\* instruction older than the slot's own
\* ------------------------------------------------------------------
C12_TagOk(n, q) ==
    q # NONE =>
        /\ q \in LiveRob
        /\ ~rob_queue[q].ready
        /\ rob_queue[q].uid < rs[n].uid

C12_WaitingTagsLive ==
    EndOfCycle =>
        \A n \in RSNames : rs[n].busy =>
            (C12_TagOk(n, rs[n].Qj) /\ C12_TagOk(n, rs[n].Qk))

\* ------------------------------------------------------------------
\* C13: after every cycle, for every register other than R0 the RAT entry
\* is clean or is the index of an entry that is in the ROB
\* ------------------------------------------------------------------
C13_RatLive ==
    EndOfCycle =>
        \A r \in Regs \ {0} : rat[r] = NONE \/ rat[r] \in LiveRob

\* ------------------------------------------------------------------
\* C14: in every reachable state, no two registers have RAT entries that
\* point to the same ROB index
\* ------------------------------------------------------------------
C14_RatInjective ==
    \A r1, r2 \in Regs : (r1 # r2 /\ rat[r1] # NONE) => rat[r1] # rat[r2]

\* ------------------------------------------------------------------
\* C15: after every cycle, the cycles recorded for an instruction id are
\* ordered issue <= start_exec <= finish_exec <= write <= commit, and no
\* stage is recorded while an earlier stage is not
\* ------------------------------------------------------------------
C15_Stages(t) == <<t.issue, t.start_exec, t.finish_exec, t.write, t.commit>>

C15_Ordered(t) ==
    \A i, j \in 1..5 :
        (i < j /\ C15_Stages(t)[j] # NONE) =>
            (C15_Stages(t)[i] # NONE /\ C15_Stages(t)[i] <= C15_Stages(t)[j])

C15_TimingOrdered == EndOfCycle => \A id \in InstrIds : C15_Ordered(timing[id])

\* ------------------------------------------------------------------
\* C16: after every completed cycle the ROB is empty or its head entry is
\* not ready: the commit loop retires every ready entry that reaches the
\* head
\* ------------------------------------------------------------------
C16_HeadDrained == EndOfCycle => (rob_count = 0 \/ ~rob_queue[rob_head].ready)

\* a cycle ends after its commit loop retired two entries and stopped at
\* an entry that is not ready, behind which a ready entry waits
C16_Witness ==
    /\ EndOfCycle
    /\ Len(hist.commits) >= 2
    /\ hist.commits[Len(hist.commits)].cyc = cycle
    /\ hist.commits[Len(hist.commits) - 1].cyc = cycle
    /\ rob_count >= 2
    /\ \E i \in LiveRob : rob_queue[i].ready

\* ------------------------------------------------------------------
\* C18: the flush and the pending redirect of a taken branch are produced
\* in the cycle in which the branch's result is broadcast on the CDB, never
\* in an earlier cycle: every flush of a cycle is made by a branch whose
\* write-back is done in that same cycle
\* ------------------------------------------------------------------
C18_FlushAtWriteBack ==
    EndOfCycle =>
        \A k \in 1..Len(hist.flush_log) :
            \E w \in 1..Len(hist.wb_done) :
                hist.wb_done[w].res.uid = hist.flush_log[k].by_uid

\* ------------------------------------------------------------------
\* C19: same-cycle wake-up: a busy slot whose last outstanding tag is
\* resolved by a CDB broadcast of cycle c, with a unit of its class free at
\* dispatch, starts execution in cycle c
\* ------------------------------------------------------------------
\* a broadcast of this cycle found slot n waiting on its tag, and the slot
\* waits for nothing now
C19_WokenThisCycle(n) ==
    /\ rs[n].busy
    /\ rs[n].Qj = NONE
    /\ rs[n].Qk = NONE
    /\ \E w \in 1..Len(hist.wb_done) :
          LET p == hist.wb_done[w].pre_rs[n]
              tag == hist.wb_done[w].res.rob_index
          IN /\ p.busy
             /\ p.uid = rs[n].uid
             /\ (p.Qj = tag \/ p.Qk = tag)

C19_UnitFree(n) == AvailableFU(fus, prog[rs[n].instr + 1].op) # NONE

C19_DispatchStep ==
    (phase = "dispatch" /\ phase' = "track") =>
        \A n \in RSNames :
            (C19_WokenThisCycle(n) /\ C19_UnitFree(n)) =>
                /\ \E k \in 1..Len(hist'.started) :
                      /\ hist'.started[k].rs = n
                      /\ hist'.started[k].uid = rs[n].uid
                /\ timing'[rs[n].instr + 1].start_exec = cycle

C19_SameCycleWakeUp == [][C19_DispatchStep]_vars

\* a slot woken by a broadcast of this cycle has been started in it
C19_Witness ==
    /\ phase = "track"
    /\ \E k \in 1..Len(hist.started) :
          \E w \in 1..Len(hist.wb_done) :
              LET p == hist.wb_done[w].pre_rs[hist.started[k].rs]
              IN /\ p.busy
                 /\ p.uid = hist.started[k].uid
                 /\ (p.Qj # NONE \/ p.Qk # NONE)

\* ------------------------------------------------------------------
\* C20: is_complete() is true iff the ROB is empty, every RS slot is idle,
\* every functional unit is idle, and the issue pointer has passed the last
\* instruction (between two calls of step_cycle)
\* ------------------------------------------------------------------
C20_MachineIdle ==
    /\ rob_count = 0
    /\ \A n \in RSNames : ~rs[n].busy
    /\ \A i \in FUIds : fus[i].state # "executing"

C20_PastLast == next_index >= NumInstr

C20_NoBackwardRedirect == last_jump_index = NONE

C20_CompleteIffDrained ==
    phase = "idle" => (IsComplete <=> (C20_MachineIdle /\ C20_PastLast))

\* the run has ended: is_complete() is true after at least one cycle
C20_Witness == phase = "idle" /\ cycle > 0 /\ ~crashed /\ IsComplete

\* C20 as stated: ... and either the issue pointer has passed the last
\* instruction or no pending backward redirect exists
C20_AsStated ==
    phase = "idle" =>
        (IsComplete <=> (C20_MachineIdle /\ (C20_PastLast \/ C20_NoBackwardRedirect)))

\* ------------------------------------------------------------------
\* C21: run() always halts: it stops as soon as is_complete holds or the
\* cycle counter reaches the watchdog maximum, so the cycle counter never
\* exceeds the maximum, also for a program with an endless loop
\* ------------------------------------------------------------------
C21_RunHalts == [](cycle <= MaxCycle) /\ <>[]RunHalted

\* an endless loop is stopped by the watchdog
C21_Witness ==
    /\ RunHalted
    /\ cycle = MaxCycle
    /\ ~crashed
    /\ ~IsComplete
    /\ last_jump_index # NONE

\* ------------------------------------------------------------------
\* C22: run() is a repetition of step_cycle(): on the same program and
\* initial state both end in the same cycle with the same register file,
\* memory and timing table
\* ------------------------------------------------------------------
C22_SameResult == (StepHalted /\ driver.first # NoResult) => Result = driver.first

\* ------------------------------------------------------------------
\* C23: the register-file value of R0 is 0 in every reachable state; a
\* commit whose destination is R0 leaves it unchanged
\* ------------------------------------------------------------------
C23_R0IsZero == regs[0] = 0

\* ADD R0,R1,R1 with R1 = 3 has committed: the value 6 was written to R0
C23_Witness ==
    /\ prog = <<I_ADD(0, 1, 1)>>
    /\ regs[1] = 3
    /\ \E k \in 1..Len(hist.commits) : hist.commits[k].instr_id = 1

\* ------------------------------------------------------------------
\* C24: the RAT entry of R0 is clean in every reachable state, also after
\* an instruction with destination R0 is issued, and an instruction that
\* reads R0 as a source has captured the value 0
\* ------------------------------------------------------------------
C24_ReadsZero(n) ==
    LET sr == SourceRegs(prog[rs[n].instr + 1])
    IN /\ sr[1] = 0 => (rs[n].Qj = NONE /\ rs[n].Vj = 0)
       /\ sr[2] = 0 => (rs[n].Qk = NONE /\ rs[n].Vk = 0)

C24_R0Clean ==
    /\ rat[0] = NONE
    /\ \A n \in RSNames : rs[n].busy => C24_ReadsZero(n)

\* ------------------------------------------------------------------
\* C25: the ROB entry allocated at issue has destination rA for
\* ADD/SUB/NAND/MUL/LOAD, R1 for CALL and none for STORE, BEQ and RET;
\* STORE, BEQ and RET are never found as the producer of a register
\* ------------------------------------------------------------------
C25_NoDestOps == {"STORE", "BEQ", "RET"}

C25_ExpectedDest(ins) ==
    IF ins.op \in C25_NoDestOps THEN NONE
    ELSE IF ins.op = "CALL" THEN 1 ELSE ins.rA

C25_FoundAsProducer(reg) ==
    LET pos == RobFindPos(rob_queue, rob_head, rob_count, reg)
    IN pos # NONE /\ rob_queue[RobIndexAt(rob_head, pos)].name \in C25_NoDestOps

C25_Destination ==
    /\ \A k \in LiveRob :
          rob_queue[k].dest = C25_ExpectedDest(prog[rob_queue[k].instr_id])
    /\ \A reg \in DOMAIN regs : ~C25_FoundAsProducer(reg)

\* ------------------------------------------------------------------
\* C26: issuing a BEQ when a BEQ slot and a ROB entry are free succeeds
\* without an error: the slot is filled, a ROB entry is allocated and the
\* issue pointer advances
\* ------------------------------------------------------------------
C26_BEQCanIssue ==
    /\ phase = "issue"
    /\ next_index < NumInstr
    /\ ~InFlightBlocked
    /\ prog[next_index + 1].op = "BEQ"
    /\ FreeSlot("BEQ") # "NONE"
    /\ rob_count < ROB_SIZE

C26_IssueStep ==
    C26_BEQCanIssue =>
        /\ ~crashed'
        /\ rs'[FreeSlot("BEQ")].busy
        /\ rob_count' = rob_count + 1
        /\ next_index' = next_index + 1

C26_BEQIssues == [][C26_IssueStep]_vars

\* ------------------------------------------------------------------
\* C27: a RET redirect whose target lies inside the program and is not
\* index 0 moves the issue pointer to the target; target 0 and every
\* target outside the program put the issue pointer at end-of-program
\* ------------------------------------------------------------------
C27_RetRedirectDue ==
    phase = "idle" /\ cycle' = cycle + 1 /\ pending_label = NONE /\ pending_target # NONE

C27_RedirectStep ==
    C27_RetRedirectDue =>
        /\ pending_target' = NONE
        /\ next_index' = IF 0 < pending_target /\ pending_target < NumInstr
                         THEN pending_target ELSE NumInstr

C27_RetRedirect == [][C27_RedirectStep]_vars

\* the cycle began with a RET redirect to an instruction of the program
\* other than the first, and the issue pointer stands on it
C27_Witness ==
    /\ phase = "issue"
    /\ hist.redirect # NONE
    /\ 0 < hist.redirect /\ hist.redirect < NumInstr
    /\ next_index = hist.redirect

\* the same with index 0 accepted as a target
C27_AsStatedStep ==
    C27_RetRedirectDue =>
        next_index' = IF 0 <= pending_target /\ pending_target < NumInstr
                      THEN pending_target ELSE NumInstr

C27_AsStated == [][C27_AsStatedStep]_vars

\* ------------------------------------------------------------------
\* C28: when the result of an arithmetic or LOAD instruction in ROB entry k
\* is written back, RAT[dest] is cleared in that write-back if it still
\* names k, and is left as it is if it names a younger entry
\* ------------------------------------------------------------------
C28_Dest == rob_queue[BroadcastResult.rob_index].dest

C28_WriteBackStep ==
    (/\ EffectiveWriteBack
     /\ BroadcastResult.instruction_type \in ValueOps
     /\ BroadcastResult.rob_index \in LiveRob
     /\ C28_Dest \in DOMAIN rat) =>
        rat'[C28_Dest] = IF rat[C28_Dest] = BroadcastResult.rob_index
                         THEN NONE ELSE rat[C28_Dest]

C28_RatClearedAtWriteBack == [][C28_WriteBackStep]_vars

\* ------------------------------------------------------------------
\* C29: a commit cycle is recorded for an instruction only if its
\* write-back is recorded, in the same or an earlier cycle: the cycle
\* recorded is the current one and is not smaller than the write cycle
\* the table holds at that moment
\* ------------------------------------------------------------------
C29_CommitRecorded(id) == timing'[id].commit # timing[id].commit

C29_CommitStep ==
    \A id \in InstrIds :
        C29_CommitRecorded(id) =>
            /\ timing[id].commit = NONE
            /\ timing[id].write # NONE
            /\ timing'[id].commit = cycle
            /\ timing'[id].commit >= timing[id].write

C29_AsStatedStep ==
    \A id \in InstrIds :
        C29_CommitRecorded(id) =>
            (timing[id].write # NONE /\ timing'[id].commit > timing[id].write)

C30_Latency(op) ==
    CASE op \in {"ADD", "SUB"} -> 2
      [] op = "NAND" -> 1
      [] op = "MUL" -> 12
      [] op \in {"LOAD", "STORE"} -> 6
      [] OTHER -> 1

\* nothing has been flushed so far
C30_NothingFlushed == hist.flushed_uids = {}

C30_FixedLatency ==
    (EndOfCycle /\ C30_NothingFlushed) =>
        \A id \in InstrIds :
            timing[id].finish_exec # NONE =>
                timing[id].finish_exec = timing[id].start_exec + C30_Latency(prog[id].op)

\* ------------------------------------------------------------------
\* C31: the ROB never exceeds its capacity and stays a well-formed
\* circular queue: 0 <= count <= 8, tail = (head + count) mod 8, the count
\* slots from head hold distinct entries and every other slot is empty
\* ------------------------------------------------------------------
C31_Bounded == 0 <= rob_count /\ rob_count <= ROB_SIZE

C31_TailFollows == rob_tail = (rob_head + rob_count) % ROB_SIZE

C31_LiveFilled ==
    /\ Cardinality(LiveRob) = rob_count
    /\ \A i \in LiveRob : rob_queue[i].name # "NONE"
    /\ \A i, j \in LiveRob : i # j => rob_queue[i].uid # rob_queue[j].uid

C31_RestEmpty == \A i \in RobIdx \ LiveRob : rob_queue[i] = NoEntry

C31_RobWellFormed ==
    /\ rob_head \in RobIdx /\ rob_tail \in RobIdx
    /\ C31_Bounded
    /\ C31_TailFollows
    /\ C31_LiveFilled
    /\ C31_RestEmpty

\* after issues, commits and a flush the live part wraps around the end
C31_Witness ==
    /\ hist.flushed_uids # {}
    /\ Len(hist.commits) > 0
    /\ rob_count > 0
    /\ rob_tail <= rob_head

\* ------------------------------------------------------------------
\* C32: for LOAD R1, 0(R0); ADD R2, R1, R1 with memory[0] = 7 and all
\* registers 0 the final timing table is LOAD 1, 2, 7, 7, 8 and
\* ADD 2, 8, 9, 9, 10, and the final registers are R1 = 7, R2 = 14
\* ------------------------------------------------------------------
C32_Program == <<I_LOAD(1, 0, 0), I_ADD(2, 1, 1)>>

C32_Row(i, s, f, w, c) ==
    [issue |-> i, start_exec |-> s, finish_exec |-> f, write |-> w, commit |-> c]

C32_Finished ==
    /\ prog = C32_Program
    /\ driver.regs0 = [r \in Regs |-> 0]
    /\ driver.mem0[0] = 7
    /\ EndOfCycle
    /\ IsComplete

C32_Registers == regs[1] = 7 /\ regs[2] = 14

C32_Table ==
    /\ timing[1] = C32_Row(1, 2, 7, 7, 8)
    /\ timing[2] = C32_Row(2, 8, 9, 9, 10)

C32_DependentChain == C32_Finished => (C32_Table /\ C32_Registers)

\* ------------------------------------------------------------------
\* C33: for ten independent MULs in a row the single MUL slot admits one
\* multiply at a time: MUL k is issued in cycle 13 (k - 1) + 1, every
\* other cycle stalls because the MUL slot is busy, and the ROB never
\* holds more than one entry, so it is never full
\* ------------------------------------------------------------------
C33_Program ==
    <<I_MUL(3, 2, 2), I_MUL(3, 2, 2), I_MUL(3, 2, 2), I_MUL(3, 2, 2), I_MUL(3, 2, 2),
      I_MUL(3, 2, 2), I_MUL(3, 2, 2), I_MUL(3, 2, 2), I_MUL(3, 2, 2), I_MUL(3, 2, 2)>>

C33_Period == LAT_MUL + 1

C33_IssueAttempt == hist.issued[1]

C34_Bit(x, i) == (x \div (2 ^ i)) % 2

RECURSIVE C34_NandBits(_, _, _)
C34_NandBits(a, b, i) ==
    IF i < 0 THEN 0
    ELSE (2 ^ i) * (1 - C34_Bit(a, i) * C34_Bit(b, i)) + C34_NandBits(a, b, i - 1)

\* a * b modulo 2^16 from the 8-bit halves of both operands
C34_MulLow(a, b) ==
    LET al == a % 256
        ah == a \div 256
        bl == b % 256
        bh == b \div 256
    IN (al * bl + ((al * bh + ah * bl) % 256) * 256) % 65536

C34_Expected(op, a, b) ==
    CASE op = "ADD" -> IF a + b >= 65536 THEN a + b - 65536 ELSE a + b
      [] op = "SUB" -> IF a >= b THEN a - b ELSE a - b + 65536
      [] op = "NAND" -> C34_NandBits(a, b, 15)
      [] op = "MUL" -> C34_MulLow(a, b)

C34_Arithmetic ==
    (driver.name = "alu" /\ driver.result # NONE) =>
        /\ driver.result \in 0..65535
        /\ driver.result = C34_Expected(driver.op, driver.a, driver.b)

\* a subtraction below zero has been computed and has wrapped around
C34_Witness ==
    /\ driver.name = "alu"
    /\ driver.op = "SUB"
    /\ driver.a = 1
    /\ driver.b = 2
    /\ driver.result = 65535

\* ------------------------------------------------------------------
\* C35: each dynamic instance of a branch instruction (BEQ, CALL, RET) that
\* executes produces exactly one branch notification to the core
\* ------------------------------------------------------------------
C35_BranchOps == {"BEQ", "CALL", "RET"}

\* the positions in the history of finished executions that notified the
\* core for the instance uid
C35_Notifications(uid) ==
    {k \in 1..Len(hist.finished) :
        hist.finished[k].uid = uid /\ hist.finished[k].op \in C35_BranchOps}

C35_OneNotification ==
    \A k \in 1..Len(hist.finished) :
        hist.finished[k].op \in C35_BranchOps =>
            Cardinality(C35_Notifications(hist.finished[k].uid)) = 1

\* ------------------------------------------------------------------
\* C36: an RS entry is dispatched at most once per issue: at any moment
\* at most one functional unit holds work for a given RS slot, and each
\* issued instruction produces at most one entry in the write-back queue
\* ------------------------------------------------------------------
C36_UnitsOf(n) == {i \in FUIds : fus[i].state = "executing" /\ fus[i].rs_entry_id = n}

C36_OneUnitPerSlot == \A n \in RSNames : Cardinality(C36_UnitsOf(n)) <= 1

\* every finished execution queues one result: no instance finishes twice
C36_OneResultPerIssue ==
    \A j, k \in 1..Len(hist.finished) :
        j # k => hist.finished[j].uid # hist.finished[k].uid

C36_DispatchedOnce == C36_OneUnitPerSlot /\ C36_OneResultPerIssue

\* ------------------------------------------------------------------
\* C37: a write-back only affects the instruction that produced it: the
\* ROB entry it marks ready, the slots it forwards to and the slot it
\* releases belong to the instance that produced the result
\* ------------------------------------------------------------------
C37_MarksReady(k) == k \in RobIdx /\ ~rob_queue[k].ready /\ rob_queue'[k].ready

C37_Releases(n) == n \in RSNames /\ rs[n].busy /\ ~rs'[n].busy

C37_ForwardsTo(n, k) ==
    /\ rs[n].busy
    /\ \/ (rs[n].Qj = k /\ rs'[n].Qj = NONE)
       \/ (rs[n].Qk = k /\ rs'[n].Qk = NONE)

C37_WriteBackStep ==
    EffectiveWriteBack =>
        LET r == BroadcastResult
            k == r.rob_index
        IN /\ C37_MarksReady(k) => rob_queue[k].uid = r.uid
           /\ C37_Releases(r.rs_entry_id) => rs[r.rs_entry_id].uid = r.uid
           /\ (\E n \in RSNames : C37_ForwardsTo(n, k)) =>
                  (k \in LiveRob /\ rob_queue[k].uid = r.uid)

C37_OwnEffectsOnly == [][C37_WriteBackStep]_vars

\* ------------------------------------------------------------------
\* C38: out-of-order execution preserves sequential semantics: for every
\* terminating program in which no LOAD reads an address written by an
\* earlier STORE, the final registers and memory are those of executing
\* the instructions one at a time in program order from the same state
\* ------------------------------------------------------------------
C38_Fuel == MaxCycle + ROB_SIZE

C38_SetReg(rf, r, v) == IF r = 0 THEN rf ELSE [rf EXCEPT ![r] = v % WORD]

\* one instruction executed in program order; st = [pc, regs, mem, stored,
\* aliased]: stored are the addresses written so far, aliased tells that a
\* LOAD has read one of them
C38_Step(st) ==
    LET ins == prog[st.pc + 1]
        rf == st.regs
        addr == (rf[ins.rB] + ins.imm) % WORD
        next == [st EXCEPT !.pc = st.pc + 1]
    IN CASE ins.op = "ADD" -> [next EXCEPT !.regs = C38_SetReg(rf, ins.rA, rf[ins.rB] + rf[ins.rC])]
         [] ins.op = "SUB" -> [next EXCEPT !.regs = C38_SetReg(rf, ins.rA, rf[ins.rB] - rf[ins.rC] + WORD)]
         [] ins.op = "NAND" -> [next EXCEPT !.regs = C38_SetReg(rf, ins.rA, C34_NandBits(rf[ins.rB], rf[ins.rC], 15))]
         [] ins.op = "MUL" -> [next EXCEPT !.regs = C38_SetReg(rf, ins.rA, C34_MulLow(rf[ins.rB], rf[ins.rC]))]
         [] ins.op = "LOAD" ->
                [next EXCEPT !.regs = C38_SetReg(rf, ins.rA,
                                         IF addr \in DOMAIN st.mem THEN st.mem[addr] ELSE 0),
                             !.aliased = st.aliased \/ addr \in st.stored]
         [] ins.op = "STORE" ->
                [next EXCEPT !.mem = [a \in (DOMAIN st.mem) \cup {addr} |->
                                         IF a = addr THEN rf[ins.rA] ELSE st.mem[a]],
                             !.stored = st.stored \cup {addr}]
         [] ins.op = "BEQ" ->
                [st EXCEPT !.pc = IF rf[ins.rA] = rf[ins.rB] THEN ins.label ELSE st.pc + 1]
         [] ins.op = "CALL" ->
                [st EXCEPT !.pc = ins.label, !.regs = C38_SetReg(rf, 1, st.pc + 1)]
         [] ins.op = "RET" -> [st EXCEPT !.pc = rf[1]]

RECURSIVE C38_Run(_, _)
C38_Run(st, fuel) ==
    IF st.pc < 0 \/ st.pc >= NumInstr THEN [st EXCEPT !.done = TRUE]
    ELSE IF fuel = 0 THEN st
    ELSE C38_Run(C38_Step(st), fuel - 1)

C38_Sequential ==
    C38_Run([pc |-> 0, regs |-> driver.regs0, mem |-> driver.mem0, stored |-> {},
             aliased |-> FALSE, done |-> FALSE], C38_Fuel)

\* the simulation has ended for a program in the scope of the claim
C38_InScope ==
    /\ EndOfCycle
    /\ IsComplete
    /\ C38_Sequential.done
    /\ ~C38_Sequential.aliased

C38_SameMemory ==
    \A a \in (DOMAIN mem) \cup (DOMAIN C38_Sequential.mem) :
        (IF a \in DOMAIN mem THEN mem[a] ELSE 0)
            = (IF a \in DOMAIN C38_Sequential.mem THEN C38_Sequential.mem[a] ELSE 0)

C38_SequentialSemantics ==
    C38_InScope => (regs = C38_Sequential.regs /\ C38_SameMemory)

\* ------------------------------------------------------------------
\* C39: no instruction is stuck: every ROB entry can still be completed,
\* that is, while it is not ready its instruction is pending in a
\* reservation station, in a functional unit or in the write-back queue
\* ------------------------------------------------------------------
C39_InSlot(uid) == \E n \in RSNames : rs[n].busy /\ rs[n].uid = uid

C39_InUnit(uid) == \E i \in FUIds : fus[i].state = "executing" /\ fus[i].uid = uid

C39_Queued(uid) == \E k \in 1..Len(write_queue) : write_queue[k].uid = uid

C39_Pending(uid) == C39_InSlot(uid) \/ C39_InUnit(uid) \/ C39_Queued(uid)

C39_NoneStuck ==
    EndOfCycle =>
        \A k \in LiveRob : ~rob_queue[k].ready => C39_Pending(rob_queue[k].uid)

\* ------------------------------------------------------------------
\* C40: completion means quiescence: whenever is_complete() holds between
\* two cycles, no taken-branch redirect is pending and unapplied and the
\* write-back queue is empty
\* ------------------------------------------------------------------
C40_RedirectPending == pending_label # NONE \/ pending_target # NONE

C40_BetweenCycles == phase = "idle" /\ ~crashed

C40_Quiescent ==
    (C40_BetweenCycles /\ IsComplete) =>
        (~C40_RedirectPending /\ write_queue = <<>>)
====
